---- MODULE Spec2Model ----
\* Model of the KERI event processor (src/src/processor/mod.rs): the finalized
\* key event logs, the duplicity log, and the operations that read and write
\* them.  Event application, key-configuration verification and the database
\* are collaborators of the processor; they are modelled from their
\* documented behaviour.
EXTENDS Integers, Sequences, FiniteSets, TLC

\* ------------------------------------------------------------------ bounds
\* Highest sequence number an offered event may carry.
MaxSn == 2
\* Highest number of receipts held in the receipt tables and escrows.
MaxReceipts == 1
\* Highest number of process_event calls in progress at once.
MaxCalls == 2
\* Highest number of events of one identifier stored or being processed when
\* calls for that identifier run at the same time.
MaxLen == 4
\* Highest number of seals given to a builder.
MaxSeals == 1

\* -------------------------------------------------------------- primitives
\* A Blake3-256 digest, written as the data it is the digest of: digests are
\* collision-free.
Digest(data) == [code |-> "Blake3_256", digest |-> data]

NoDigest == [code |-> "none", digest |-> <<>>]
BadDigest == Digest(<<"unrelated">>)

\* IdentifierPrefix variants
Basic(k) == [kind |-> "Basic", val |-> k]
SelfAddressing(d) == [kind |-> "SelfAddressing", val |-> d]
DefaultPrefix == [kind |-> "Default", val |-> <<>>]
\* Option<IdentifierPrefix>::None
NoDelegator == [kind |-> "None", val |-> <<>>]

\* Keys that occur an odd number of times in a key list: what survives a
\* byte-wise XOR fold of the key digests.
OddKeys(keys) ==
    {k \in {keys[i] : i \in 1..Len(keys)} :
        Cardinality({i \in 1..Len(keys) : keys[i] = k}) % 2 = 1}

\* nxt_commitment: digest of the threshold XOR-folded with the key digests.
nxt_commitment(threshold, keys) == Digest(<<"nxt", threshold, OddKeys(keys)>>)

KeyConfig(keys, threshold, nxt) ==
    [public_keys |-> keys, threshold |-> threshold, next_key_digest |-> nxt]

DefaultKeyConfig == KeyConfig(<<>>, 0, NoDigest)

\* ------------------------------------------------------------------ events
\* EventMessage: the fields of Event with the payload of its EventData.
EventMessage(prefix, sn, type, prev, kc, data, delegator) ==
    [prefix |-> prefix, sn |-> sn, type |-> type, prev |-> prev, kc |-> kc,
     data |-> data, delegator |-> delegator]

\* EventMessage::serialize: the canonical encoding, fields in wire order.
Serialize(em) ==
    <<"KERI10JSON", em.prefix, em.sn, em.type, em.prev, em.kc, em.data,
      em.delegator>>

DummyPrefix == [kind |-> "Dummy", val |-> <<>>]

\* The fixed events of the universe: the key configurations, the delegator D,
\* the delegated inception TheDip of identifier C, and its delegated rotation.
KCa == KeyConfig(<<"k1">>, 1, nxt_commitment(2, <<"k2", "k3">>))
KCb == KeyConfig(<<"k2", "k3">>, 2, nxt_commitment(1, <<"k1">>))
KCc == KeyConfig(<<"k4">>, 1, nxt_commitment(1, <<"k5">>))
KCd == KeyConfig(<<"k5">>, 1, nxt_commitment(1, <<"k4">>))

DPrefix == Basic("k1")
EPrefix == Basic("k2")

\* The digests of the fixed events are written as names.
CPrefix == SelfAddressing(Digest(<<"TheDip with the dummy prefix">>))
C2Prefix == SelfAddressing(Digest(<<"DipE with the dummy prefix">>))

TheDip == EventMessage(CPrefix, 0, "dip", NoDigest, KCc, <<>>, DPrefix)
\* names another delegator, E
DipE == EventMessage(C2Prefix, 0, "dip", NoDigest, KCc, <<>>, EPrefix)
\* carries C's prefix but not the payload the prefix was derived from
BadDip == [TheDip EXCEPT !.kc = KCd]
TheDrt ==
    EventMessage(CPrefix, 1, "drt", Digest(<<"TheDip">>), KCd, <<>>,
                 DefaultPrefix)
\* a delegated rotation to keys that were not committed to
BadDrt == [TheDrt EXCEPT !.kc = KCc]
\* a delegated rotation that skips a sequence number
FarDrt == [TheDrt EXCEPT !.sn = 2]

\* SelfAddressing::Blake3_256.derive
Derive(data) ==
    Digest(CASE data = Serialize([TheDip EXCEPT !.prefix = DummyPrefix]) ->
                    <<"TheDip with the dummy prefix">>
             [] data = Serialize([DipE EXCEPT !.prefix = DummyPrefix]) ->
                    <<"DipE with the dummy prefix">>
             [] data = Serialize(TheDip) -> <<"TheDip">>
             [] data = Serialize(TheDrt) -> <<"TheDrt">>
             [] data = Serialize(BadDrt) -> <<"BadDrt">>
             [] data = Serialize(FarDrt) -> <<"FarDrt">>
             [] OTHER -> data)

\* SelfAddressingPrefix::verify_binding
verify_binding(sap, data) == sap = Derive(data)

\* An attached signature: the index of the signing key, and (standing for the
\* signature bytes) the key that produced it and the digest of the data it
\* was made over.
Sig(i, k, data) == [index |-> i, by |-> k, over |-> Derive(data)]

SigValid(kc, data, sig) ==
    /\ sig.index < Len(kc.public_keys)
    /\ sig.by = kc.public_keys[sig.index + 1]
    /\ sig.over = Derive(data)

\* KeyConfig::verify with a Simple(n) threshold: "true", or the error.
verify(kc, data, sigs) ==
    LET valid == {i \in 1..Len(sigs) : SigValid(kc, data, sigs[i])}
    IN  IF Cardinality({sigs[i].index : i \in valid}) < kc.threshold
        THEN "NotEnoughSigsError"
        ELSE IF valid # 1..Len(sigs)
        THEN "SignatureVerificationError"
        ELSE "true"

\* Binding of an inception event to its identifier.
verify_identifier_binding(em) ==
    CASE em.prefix.kind = "Basic" ->
            em.type = "icp" /\ em.kc.public_keys = <<em.prefix.val>>
      [] em.prefix.kind = "SelfAddressing" ->
            verify_binding(em.prefix.val,
                           Serialize([em EXCEPT !.prefix = DummyPrefix]))
      [] OTHER -> FALSE

\* ------------------------------------------------------------------- state
IdentifierState(prefix, sn, last, current, delegator) ==
    [prefix |-> prefix, sn |-> sn, last |-> last, current |-> current,
     delegator |-> delegator]

\* IdentifierState::default()
DefaultState == IdentifierState(DefaultPrefix, 0, <<>>, DefaultKeyConfig, NoDelegator)

Ok(st) == [ok |-> TRUE, err |-> "none", st |-> st]
Err(e) == [ok |-> FALSE, err |-> e, st |-> DefaultState]

\* EventSemantics::apply_to for an event message.
apply(state, em) ==
    IF em.type \in {"icp", "dip"}
    THEN IF state.prefix # DefaultPrefix THEN Err("EventDuplicateError")
         ELSE IF em.sn # 0 THEN Err("SemanticError")
         ELSE IF ~verify_identifier_binding(em) THEN Err("SemanticError")
         ELSE Ok(IdentifierState(em.prefix, 0, Serialize(em), em.kc,
                    IF em.type = "dip" THEN em.delegator ELSE NoDelegator))
    ELSE IF em.type \notin {"rot", "ixn", "drt"} THEN Err("SemanticError")
    ELSE IF em.type = "rot" /\ state.delegator # NoDelegator
         THEN Err("SemanticError")
    ELSE IF em.prefix # state.prefix THEN Err("SemanticError")
    ELSE IF em.sn <= state.sn THEN Err("EventDuplicateError")
    ELSE IF em.sn # state.sn + 1 THEN Err("EventOutOfOrderError")
    ELSE IF ~verify_binding(em.prev, state.last) THEN Err("SemanticError")
    ELSE IF em.type = "ixn"
         THEN Ok([state EXCEPT !.sn = em.sn, !.last = Serialize(em)])
    ELSE IF nxt_commitment(em.kc.threshold, em.kc.public_keys)
                # state.current.next_key_digest
         THEN Err("SemanticError")
    ELSE Ok([state EXCEPT !.sn = em.sn, !.last = Serialize(em),
                          !.current = em.kc])

\* ---------------------------------------------------------------- database
\* The finalized KELs are a map from identifier to the list of its signed
\* events in insertion order; an identifier without events has no entry.
SignedEventMessage(em, sigs, attachments) ==
    [event_message |-> em, signatures |-> sigs, attachments |-> attachments]

get_kel_finalized_events(kel, id) ==
    IF id \in DOMAIN kel THEN kel[id] ELSE <<>>

has_kel(kel, id) == id \in DOMAIN kel

add_kel_finalized_event(kel, se, id) ==
    [p \in DOMAIN kel \cup {id} |->
        IF p = id THEN Append(get_kel_finalized_events(kel, id), se)
        ELSE kel[p]]

remove_kel_finalized_event(kel, id, se) ==
    LET rest == SelectSeq(get_kel_finalized_events(kel, id),
                          LAMBDA e : e # se)
    IN  IF rest = <<>>
        THEN [p \in DOMAIN kel \ {id} |-> kel[p]]
        ELSE [p \in DOMAIN kel \cup {id} |-> IF p = id THEN rest ELSE kel[p]]

add_duplicious_event(dups, se, id) ==
    [p \in DOMAIN dups \cup {id} |->
        IF p = id
        THEN Append(IF id \in DOMAIN dups THEN dups[id] ELSE <<>>, se)
        ELSE dups[p]]

\* Vec::sort on TimestampedSignedEventMessage: by sn, insertion order within
\* one sn.
RECURSIVE SortedInsert(_, _)
SortedInsert(sorted, e) ==
    IF sorted = <<>> THEN <<e>>
    ELSE IF sorted[Len(sorted)].event_message.sn <= e.event_message.sn
         THEN Append(sorted, e)
         ELSE Append(SortedInsert(SubSeq(sorted, 1, Len(sorted) - 1), e),
                     sorted[Len(sorted)])

RECURSIVE sort(_)
sort(events) ==
    IF events = <<>> THEN <<>>
    ELSE SortedInsert(sort(SubSeq(events, 1, Len(events) - 1)),
                      events[Len(events)])

\* --------------------------------------------------------------- processor
Some(v) == [some |-> TRUE, val |-> v]
None == [some |-> FALSE, val |-> <<>>]

\* The replay loop that skips every event that does not apply.
RECURSIVE replay_skipping(_, _, _)
replay_skipping(state, events, i) ==
    IF i > Len(events) THEN state
    ELSE LET r == apply(state, events[i].event_message)
         IN  IF r.ok THEN replay_skipping(r.st, events, i + 1)
             ELSE replay_skipping(state, events, i + 1)

\* The replay loop of compute_state over the sorted events from position i.
RECURSIVE replay(_, _, _)
replay(state, events, i) ==
    IF i > Len(events) THEN state
    ELSE LET r == apply(state, events[i].event_message)
         IN  IF r.ok THEN replay(r.st, events, i + 1)
             ELSE IF r.err \in {"EventOutOfOrderError", "NotEnoughSigsError"}
                  THEN replay(state, events, i + 1)
                  ELSE state

\* The loop of compute_state_at_sn over the events from position i: the
\* result of the first event that does not apply, or the last state.
RECURSIVE replay_strict(_, _, _)
replay_strict(state, events, i) ==
    IF i > Len(events) THEN Ok(state)
    ELSE LET r == apply(state, events[i].event_message)
         IN  IF r.ok THEN replay_strict(r.st, events, i + 1) ELSE r

\* compute_state that replays no further than the inception event.
compute_state_of_inception(kel, id) ==
    IF has_kel(kel, id)
    THEN Some(replay(DefaultState,
                     SubSeq(sort(get_kel_finalized_events(kel, id)), 1, 1), 1))
    ELSE None

compute_state(kel, id) ==
    IF has_kel(kel, id)
    THEN Some(replay(DefaultState, sort(get_kel_finalized_events(kel, id)), 1))
    ELSE None

get_event_at_sn(kel, id, sn) ==
    LET events == get_kel_finalized_events(kel, id)
        hits == {i \in 1..Len(events) : events[i].event_message.sn = sn}
    IN  IF hits = {} THEN None
        ELSE Some(events[CHOOSE i \in hits : \A j \in hits : i <= j])

\* SignedEventMessage::serialize: the serialized event followed by the
\* attached signatures and the other attachments.
SerializeSigned(se) ==
    Serialize(se.event_message) \o <<"-A", se.signatures, se.attachments>>

\* compute_state_at_sn that replays the whole log whatever sn is asked for.
compute_state_at_sn_unfiltered(kel, id, sn) ==
    IF has_kel(kel, id)
    THEN LET r == replay_strict(DefaultState,
                                sort(get_kel_finalized_events(kel, id)), 1)
         IN  IF r.ok THEN Ok(Some(r.st)) ELSE r
    ELSE Ok(None)

\* The state after the stored events up to and including sn; unlike
\* compute_state an event that does not apply ends the call with its error.
compute_state_at_sn(kel, id, sn) ==
    IF has_kel(kel, id)
    THEN LET events == SelectSeq(sort(get_kel_finalized_events(kel, id)),
                                 LAMBDA e : e.event_message.sn <= sn)
             r == replay_strict(DefaultState, events, 1)
         IN  IF r.ok THEN Ok(Some(r.st)) ELSE r
    ELSE Ok(None)

\* The fold of get_kerl: the serializations of the events from position i on,
\* appended to accum.
RECURSIVE extend(_, _, _)
extend(accum, events, i) ==
    IF i > Len(events) THEN accum
    ELSE extend(accum \o SerializeSigned(events[i]), events, i + 1)

\* get_kerl that returns the serialization of the latest event only.
get_kerl_of_latest(kel, id) ==
    IF has_kel(kel, id)
    THEN Some(extend(<<>>, get_kel_finalized_events(kel, id),
                     Len(get_kel_finalized_events(kel, id))))
    ELSE None

get_kerl(kel, id) ==
    IF has_kel(kel, id)
    THEN Some(extend(<<>>, get_kel_finalized_events(kel, id), 1))
    ELSE None

\* validate_seal that asks for an event seal but not for its binding.
validate_seal_unbound(kel, seal, delegated_event) ==
    LET found == get_event_at_sn(kel, seal.prefix, seal.sn)
    IN  IF found.some
        THEN LET em == found.val.event_message
             IN  IF em.type \notin {"rot", "ixn", "drt"}
                 THEN "SemanticError"
                 ELSE IF ~\E i \in 1..Len(em.data) : em.data[i].kind = "Event"
                 THEN "SemanticError"
                 ELSE "ok"
        ELSE "EventOutOfOrderError"

\* validate_seal that takes a binding digest from a seal of any kind.
validate_seal_any_kind(kel, seal, delegated_event) ==
    LET found == get_event_at_sn(kel, seal.prefix, seal.sn)
    IN  IF found.some
        THEN LET em == found.val.event_message
             IN  IF em.type \notin {"rot", "ixn", "drt"}
                 THEN "SemanticError"
                 ELSE IF ~\E i \in 1..Len(em.data) :
                            verify_binding(em.data[i].event_digest,
                                           delegated_event)
                 THEN "SemanticError"
                 ELSE "ok"
        ELSE "EventOutOfOrderError"

\* validate_seal: "ok" or the error.
validate_seal(kel, seal, delegated_event) ==
    LET found == get_event_at_sn(kel, seal.prefix, seal.sn)
    IN  IF found.some
        THEN LET em == found.val.event_message
             IN  IF em.type \notin {"rot", "ixn", "drt"}
                 THEN "SemanticError"
                 ELSE IF ~\E i \in 1..Len(em.data) :
                            /\ em.data[i].kind = "Event"
                            /\ verify_binding(em.data[i].event_digest,
                                              delegated_event)
                 THEN "SemanticError"
                 ELSE "ok"
        ELSE "EventOutOfOrderError"

EventSeal(prefix, sn, digest) ==
    [kind |-> "Event", prefix |-> prefix, sn |-> sn, event_digest |-> digest]

DigestSeal(digest) ==
    [kind |-> "Digest", prefix |-> DefaultPrefix, sn |-> 0,
     event_digest |-> digest]

\* Attachment::SealSourceCouplets and some other attachment
SealSourceCouplets(couplets) ==
    [kind |-> "SealSourceCouplets", couplets |-> couplets]

OtherAttachment == [kind |-> "Other", couplets |-> <<>>]

SourceSeal(sn, digest) == [sn |-> sn, digest |-> digest]

\* find_source_seal that takes the first couplet of the last attachment.
find_source_seal_first(se) ==
    LET atts == se.attachments
    IN  IF atts = <<>> THEN [ok |-> FALSE, sn |-> 0, digest |-> NoDigest]
        ELSE LET last == atts[Len(atts)]
             IN  IF last.kind = "SealSourceCouplets" /\ last.couplets # <<>>
                 THEN [ok |-> TRUE,
                       sn |-> last.couplets[1].sn,
                       digest |-> last.couplets[1].digest]
                 ELSE [ok |-> FALSE, sn |-> 0, digest |-> NoDigest]

\* find_source_seal: the last couplet of the last attachment.
find_source_seal(se) ==
    LET atts == se.attachments
    IN  IF atts = <<>> THEN [ok |-> FALSE, sn |-> 0, digest |-> NoDigest]
        ELSE LET last == atts[Len(atts)]
             IN  IF last.kind = "SealSourceCouplets" /\ last.couplets # <<>>
                 THEN [ok |-> TRUE,
                       sn |-> last.couplets[Len(last.couplets)].sn,
                       digest |-> last.couplets[Len(last.couplets)].digest]
                 ELSE [ok |-> FALSE, sn |-> 0, digest |-> NoDigest]

\* apply_to_state that never reads the stored state.
apply_to_default_state(kel, em) == apply(DefaultState, em)

\* apply_to_state that takes the key configuration in force from the event,
\* whatever its type.
apply_to_state_event_keys(kel, em) ==
    LET opt == compute_state(kel, em.prefix)
        r == apply(IF opt.some THEN opt.val ELSE DefaultState, em)
    IN  IF r.ok THEN Ok([r.st EXCEPT !.current = em.kc]) ELSE r

\* apply_to_state: the computed state, or the default one, with the event
\* applied.
apply_to_state(kel, em) ==
    LET opt == compute_state(kel, em.prefix)
    IN  apply(IF opt.some THEN opt.val ELSE DefaultState, em)

\* process_event without its first part.
check_delegator_seal_skipped(kel, se) == "ok"

\* process_event, first part, with the delegator of every delegated event
\* read from the event itself.
check_delegator_seal_payload(kel, se) ==
    LET em == se.event_message
        ss == find_source_seal(se)
    IN  IF em.type \in {"dip", "drt"}
        THEN IF ~ss.ok THEN "SemanticError"
             ELSE validate_seal(kel,
                     EventSeal(em.delegator, ss.sn, ss.digest),
                     Serialize(em))
        ELSE "ok"

\* process_event, first part: the delegator seal of a delegated event.
\* "ok" or the error.
check_delegator_seal(kel, se) ==
    LET em == se.event_message
        ss == find_source_seal(se)
    IN  CASE em.type = "dip" ->
                IF ~ss.ok THEN "SemanticError"
                ELSE validate_seal(kel,
                        EventSeal(em.delegator, ss.sn, ss.digest),
                        Serialize(em))
          [] em.type = "drt" ->
                LET st == compute_state(kel, em.prefix)
                IN  IF ~st.some THEN "SemanticError"
                    ELSE IF st.val.delegator = NoDelegator
                    THEN "SemanticError"
                    ELSE IF ~ss.ok THEN "SemanticError"
                    ELSE validate_seal(kel,
                            EventSeal(st.val.delegator, ss.sn, ss.digest),
                            Serialize(em))
          [] OTHER -> "ok"

Outcome(kel, dups, res, state) ==
    [kel |-> kel, dups |-> dups, res |-> res, state |-> state]

\* add_and_verify that leaves the appended event in place on failure.
add_and_verify_keep(kel, dups, se, new_state) ==
    LET id == se.event_message.prefix
        kel1 == add_kel_finalized_event(kel, se, id)
        v == verify(new_state.current, Serialize(se.event_message),
                    se.signatures)
    IN  IF v = "true" THEN Outcome(kel1, dups, "Ok", new_state)
        ELSE Outcome(kel1, dups, v, DefaultState)

\* add_and_verify that does not look at the signatures.
add_and_verify_unverified(kel, dups, se, new_state) ==
    Outcome(add_kel_finalized_event(kel, se, se.event_message.prefix), dups,
            "Ok", new_state)

\* add_and_verify that verifies against the keys in force before the event.
add_and_verify_prior_keys(kel, dups, se, new_state) ==
    LET id == se.event_message.prefix
        kel1 == add_kel_finalized_event(kel, se, id)
        opt == compute_state(kel, id)
        prior == IF opt.some THEN opt.val ELSE DefaultState
        v == verify(prior.current, Serialize(se.event_message), se.signatures)
    IN  IF v = "true" THEN Outcome(kel1, dups, "Ok", new_state)
        ELSE Outcome(remove_kel_finalized_event(kel1, id, se), dups, v,
                     DefaultState)

\* verify_added that leaves the event in the KEL when its signatures fail.
verify_added_kept(kel1, dups, se, new_state) ==
    LET v == verify(new_state.current, Serialize(se.event_message),
                    se.signatures)
    IN  IF v = "true" THEN Outcome(kel1, dups, "Ok", new_state)
        ELSE Outcome(kel1, dups, v, DefaultState)

\* verify_added that returns the state the identifier had before the event.
verify_added_prior_state(kel1, dups, se, new_state) ==
    LET id == se.event_message.prefix
        v == verify(new_state.current, Serialize(se.event_message),
                    se.signatures)
        prior == compute_state(remove_kel_finalized_event(kel1, id, se), id)
    IN  IF v = "true"
        THEN Outcome(kel1, dups, "Ok",
                     IF prior.some THEN prior.val ELSE DefaultState)
        ELSE Outcome(remove_kel_finalized_event(kel1, id, se), dups, v,
                     DefaultState)

\* process_event, after the append: verify the signatures against the new
\* state, and remove the event again when they do not verify.
verify_added(kel1, dups, se, new_state) ==
    LET id == se.event_message.prefix
        v == verify(new_state.current, Serialize(se.event_message),
                    se.signatures)
        e == IF v = "false" THEN "SignatureVerificationError" ELSE v
    IN  IF v = "true" THEN Outcome(kel1, dups, "Ok", new_state)
        ELSE Outcome(remove_kel_finalized_event(kel1, id, se),
                     IF e = "EventDuplicateError"
                     THEN add_duplicious_event(dups, se, id) ELSE dups,
                     e, DefaultState)

\* process_event, second part: append, verify the signatures against the new
\* state, and remove the event again when they do not verify.
add_and_verify(kel, dups, se, new_state) ==
    verify_added(add_kel_finalized_event(kel, se, se.event_message.prefix),
                 dups, se, new_state)

\* process_event that removes the offered event on every failure, also one
\* met before the append.
process_event_cleanup(kel, dups, se) ==
    LET id == se.event_message.prefix
        pre == check_delegator_seal(kel, se)
    IN  IF pre # "ok" THEN Outcome(kel, dups, pre, DefaultState)
        ELSE LET r == apply_to_state(kel, se.event_message)
             IN  IF ~r.ok
                 THEN Outcome(remove_kel_finalized_event(kel, id, se), dups,
                              r.err, DefaultState)
                 ELSE add_and_verify(kel, dups, se, r.st)

\* process_event, up to the append: the delegator seal and the application of
\* the event to the computed state.  The new state, or the error.
check_and_apply(kel, se) ==
    LET pre == check_delegator_seal(kel, se)
    IN  IF pre # "ok" THEN Err(pre)
        ELSE apply_to_state(kel, se.event_message)

process_event(kel, dups, se) ==
    LET r == check_and_apply(kel, se)
    IN  IF ~r.ok THEN Outcome(kel, dups, r.err, DefaultState)
        ELSE add_and_verify(kel, dups, se, r.st)

\* The loop of get_last_establishment_event_seal over the events from
\* position i, in the order the database returns them: the error of the first
\* event that does not apply, or the last Icp or Rot event met.
RECURSIVE last_establishment(_, _, _, _)
last_establishment(state, last_est, events, i) ==
    IF i > Len(events) THEN Ok(last_est)
    ELSE LET r == apply(state, events[i].event_message)
         IN  IF ~r.ok THEN r
             ELSE last_establishment(
                      r.st,
                      IF events[i].event_message.type \in {"icp", "rot"}
                      THEN Some(events[i]) ELSE last_est,
                      events, i + 1)

\* The seal is made of the prefix and sn of the event found and of the digest
\* of the serialized signed event.
get_last_establishment_event_seal(kel, id) ==
    IF has_kel(kel, id)
    THEN LET r == last_establishment(DefaultState, None,
                                     get_kel_finalized_events(kel, id), 1)
         IN  IF ~r.ok THEN r
             ELSE IF r.st.some
             THEN Ok(Some(EventSeal(r.st.val.event_message.prefix,
                                    r.st.val.event_message.sn,
                                    Derive(SerializeSigned(r.st.val)))))
             ELSE Ok(None)
    ELSE Ok(None)

\* ---------------------------------------------------------------- receipts
\* The body of a receipt message: an event whose data is Rct when type is
\* "rct", naming the receipted event by prefix, sn and digest.
Receipt(prefix, sn, type, digest) ==
    [prefix |-> prefix, sn |-> sn, type |-> type,
     receipted_event_digest |-> digest]

SignedTransferableReceipt(body, validator_seal, signatures) ==
    [body |-> body, validator_seal |-> validator_seal,
     signatures |-> signatures]

SignedNontransferableReceipt(body, couplets) ==
    [body |-> body, couplets |-> couplets]

\* A witness: a basic prefix with its derivation code; and a signature with
\* its code, standing for the bytes the key that made it and the digest of
\* the data it was made over.
Witness(code, key) == [code |-> code, key |-> key]
SelfSigning(code, k, data) == [code |-> code, by |-> k, over |-> Derive(data)]
Couplet(witness, signature) == [witness |-> witness, signature |-> signature]

\* BasicPrefix::verify: an error when the signature is not of the kind the
\* key verifies, else whether the signature is the key's over the data.
basic_verify(witness, data, signature) ==
    IF signature.code # witness.code THEN Err("SemanticError")
    ELSE Ok(signature.by = witness.key /\ signature.over = Derive(data))

\* The receipt tables and the receipt escrows are maps from the receipted
\* identifier to the list of its receipts, like the KELs.
add_receipt(table, receipt, id) ==
    [p \in DOMAIN table \cup {id} |->
        IF p = id
        THEN Append(IF id \in DOMAIN table THEN table[id] ELSE <<>>, receipt)
        ELSE table[p]]

add_receipt_t(receipts_t, vrc, id) == add_receipt(receipts_t, vrc, id)
add_receipt_nt(receipts_nt, rct, id) == add_receipt(receipts_nt, rct, id)
add_escrow_t_receipt(escrow_t, vrc, id) == add_receipt(escrow_t, vrc, id)
add_escrow_nt_receipt(escrow_nt, rct, id) == add_receipt(escrow_nt, rct, id)

get_receipts_t(receipts_t, id) ==
    IF id \in DOMAIN receipts_t THEN Some(receipts_t[id]) ELSE None

\* get_keys_at_event that returns the key configuration of whatever event the
\* digest binds.
get_keys_at_event_any_type(kel, id, sn, event_digest) ==
    LET event == get_event_at_sn(kel, id, sn)
    IN  IF event.some
        THEN IF verify_binding(event_digest,
                               Serialize(event.val.event_message))
             THEN Ok(Some(event.val.event_message.kc))
             ELSE Err("SemanticError")
        ELSE Err("SemanticError")

\* get_keys_at_event that does not ask the seal's digest to bind the event.
get_keys_at_event_unbound(kel, id, sn, event_digest) ==
    LET event == get_event_at_sn(kel, id, sn)
    IN  IF event.some
        THEN IF event.val.event_message.type \in {"icp", "rot", "dip", "drt"}
             THEN Ok(Some(event.val.event_message.kc))
             ELSE Err("SemanticError")
        ELSE Err("SemanticError")

get_keys_at_event(kel, id, sn, event_digest) ==
    LET event == get_event_at_sn(kel, id, sn)
    IN  IF event.some
        THEN IF verify_binding(event_digest,
                               Serialize(event.val.event_message))
             THEN IF event.val.event_message.type
                        \in {"icp", "rot", "dip", "drt"}
                  THEN Ok(Some(event.val.event_message.kc))
                  ELSE Err("SemanticError")
             ELSE Err("SemanticError")
        ELSE Err("SemanticError")

has_receipt(receipts_t, id, sn, validator_pref) ==
    LET receipts == get_receipts_t(receipts_t, id)
    IN  IF receipts.some
        THEN \E i \in 1..Len(receipts.val) :
                /\ receipts.val[i].body.sn = sn
                /\ receipts.val[i].validator_seal.prefix = validator_pref
        ELSE FALSE

\* What a receipt processor leaves behind: its table of receipts, its escrow,
\* the result ("Ok" or the error) and the state returned with "Ok".
ReceiptOutcome(receipts, escrow, res, state) ==
    [receipts |-> receipts, escrow |-> escrow, res |-> res, state |-> state]

\* process_validator_receipt that returns the state of the validator.
process_validator_receipt_of_validator(kel, receipts_t, escrow_t, vrc) ==
    LET body == vrc.body
        seal == vrc.validator_seal
        event == get_event_at_sn(kel, body.prefix, body.sn)
        kp == get_keys_at_event(kel, seal.prefix, seal.sn, seal.event_digest)
        v == verify(kp.st.val, Serialize(event.val.event_message),
                    vrc.signatures)
    IN  IF body.type # "rct"
        THEN ReceiptOutcome(receipts_t, escrow_t, "SemanticError", None)
        ELSE IF ~event.some
        THEN ReceiptOutcome(receipts_t,
                            add_escrow_t_receipt(escrow_t, vrc, body.prefix),
                            "SemanticError", None)
        ELSE IF ~kp.ok
        THEN ReceiptOutcome(receipts_t, escrow_t, kp.err, None)
        ELSE IF v # "true"
        THEN ReceiptOutcome(receipts_t, escrow_t, v, None)
        ELSE ReceiptOutcome(add_receipt_t(receipts_t, vrc, body.prefix),
                            escrow_t, "Ok", compute_state(kel, seal.prefix))

\* process_validator_receipt that stores the receipt before it looks up the
\* validator's keys.
process_validator_receipt_store_first(kel, receipts_t, escrow_t, vrc) ==
    LET body == vrc.body
        seal == vrc.validator_seal
        event == get_event_at_sn(kel, body.prefix, body.sn)
        kp == get_keys_at_event(kel, seal.prefix, seal.sn, seal.event_digest)
        v == verify(kp.st.val, Serialize(event.val.event_message),
                    vrc.signatures)
        stored == add_receipt_t(receipts_t, vrc, body.prefix)
    IN  IF body.type # "rct"
        THEN ReceiptOutcome(receipts_t, escrow_t, "SemanticError", None)
        ELSE IF ~event.some
        THEN ReceiptOutcome(receipts_t,
                            add_escrow_t_receipt(escrow_t, vrc, body.prefix),
                            "SemanticError", None)
        ELSE IF ~kp.ok
        THEN ReceiptOutcome(stored, escrow_t, kp.err, None)
        ELSE IF v # "true"
        THEN ReceiptOutcome(receipts_t, escrow_t, v, None)
        ELSE ReceiptOutcome(stored, escrow_t, "Ok",
                            compute_state(kel, body.prefix))

\* process_validator_receipt that stores a receipt for an absent event.
process_validator_receipt_stored_early(kel, receipts_t, escrow_t, vrc) ==
    LET body == vrc.body
        seal == vrc.validator_seal
        event == get_event_at_sn(kel, body.prefix, body.sn)
        kp == get_keys_at_event(kel, seal.prefix, seal.sn, seal.event_digest)
        v == verify(kp.st.val, Serialize(event.val.event_message),
                    vrc.signatures)
    IN  IF body.type # "rct"
        THEN ReceiptOutcome(receipts_t, escrow_t, "SemanticError", None)
        ELSE IF ~event.some
        THEN ReceiptOutcome(add_receipt_t(receipts_t, vrc, body.prefix),
                            escrow_t, "SemanticError", None)
        ELSE IF ~kp.ok
        THEN ReceiptOutcome(receipts_t, escrow_t, kp.err, None)
        ELSE IF v # "true"
        THEN ReceiptOutcome(receipts_t, escrow_t, v, None)
        ELSE ReceiptOutcome(add_receipt_t(receipts_t, vrc, body.prefix),
                            escrow_t, "Ok", compute_state(kel, body.prefix))

\* The body must be a receipt.  With the receipted event stored, the keys of
\* the validator's establishment event named by the seal must verify the
\* signatures over the receipted event's bytes, and the receipt is stored;
\* without it the receipt is escrowed and an error returned.
process_validator_receipt(kel, receipts_t, escrow_t, vrc) ==
    LET body == vrc.body
        seal == vrc.validator_seal
        event == get_event_at_sn(kel, body.prefix, body.sn)
        kp == get_keys_at_event(kel, seal.prefix, seal.sn, seal.event_digest)
        v == verify(kp.st.val, Serialize(event.val.event_message),
                    vrc.signatures)
    IN  IF body.type # "rct"
        THEN ReceiptOutcome(receipts_t, escrow_t, "SemanticError", None)
        ELSE IF ~event.some
        THEN ReceiptOutcome(receipts_t,
                            add_escrow_t_receipt(escrow_t, vrc, body.prefix),
                            "SemanticError", None)
        ELSE IF ~kp.ok
        THEN ReceiptOutcome(receipts_t, escrow_t, kp.err, None)
        ELSE IF v # "true"
        THEN ReceiptOutcome(receipts_t, escrow_t, v, None)
        ELSE ReceiptOutcome(add_receipt_t(receipts_t, vrc, body.prefix),
                            escrow_t, "Ok", compute_state(kel, body.prefix))

\* The results of verifying the couplets, in order, over the data.
verify_couplets(couplets, data) ==
    [i \in 1..Len(couplets) |->
        basic_verify(couplets[i].witness, data, couplets[i].signature)]

\* process_witness_receipt that verifies the couplets of a receipt for an
\* absent event as well, over no data.
process_witness_receipt_verifying(kel, receipts_nt, escrow_nt, rct) ==
    LET body == rct.body
        event == get_event_at_sn(kel, body.prefix, body.sn)
        results == verify_couplets(rct.couplets,
                                   IF event.some
                                   THEN SerializeSigned(event.val) ELSE <<>>)
        errors == SelectSeq(results, LAMBDA r : ~r.ok)
    IN  IF body.type # "rct"
        THEN ReceiptOutcome(receipts_nt, escrow_nt, "SemanticError", None)
        ELSE IF Len(errors) # 0
        THEN ReceiptOutcome(receipts_nt, escrow_nt,
                            errors[Len(errors)].err, None)
        ELSE IF event.some
        THEN ReceiptOutcome(add_receipt_nt(receipts_nt, rct, body.prefix),
                            escrow_nt, "Ok", compute_state(kel, body.prefix))
        ELSE ReceiptOutcome(receipts_nt,
                            add_escrow_nt_receipt(escrow_nt, rct, body.prefix),
                            "Ok", compute_state(kel, body.prefix))

\* process_witness_receipt that does not look at the kind of the body.
process_witness_receipt_any_body(kel, receipts_nt, escrow_nt, rct) ==
    LET body == rct.body
        event == get_event_at_sn(kel, body.prefix, body.sn)
        results == verify_couplets(rct.couplets, SerializeSigned(event.val))
        errors == SelectSeq(results, LAMBDA r : ~r.ok)
    IN  IF event.some
        THEN IF Len(errors) = 0
             THEN ReceiptOutcome(
                      add_receipt_nt(receipts_nt, rct, body.prefix),
                      escrow_nt, "Ok", compute_state(kel, body.prefix))
             ELSE ReceiptOutcome(receipts_nt, escrow_nt,
                                 errors[Len(errors)].err, None)
        ELSE ReceiptOutcome(receipts_nt,
                            add_escrow_nt_receipt(escrow_nt, rct, body.prefix),
                            "Ok", compute_state(kel, body.prefix))

\* The body must be a receipt.  With the receipted event stored, the couplets
\* are verified over the serialized signed event and the receipt is stored
\* when no verification ended in an error, else the last error is returned;
\* without it the receipt is escrowed.  The state is returned.
process_witness_receipt(kel, receipts_nt, escrow_nt, rct) ==
    LET body == rct.body
        event == get_event_at_sn(kel, body.prefix, body.sn)
        results == verify_couplets(rct.couplets, SerializeSigned(event.val))
        errors == SelectSeq(results, LAMBDA r : ~r.ok)
    IN  IF body.type # "rct"
        THEN ReceiptOutcome(receipts_nt, escrow_nt, "SemanticError", None)
        ELSE IF event.some
        THEN IF Len(errors) = 0
             THEN ReceiptOutcome(
                      add_receipt_nt(receipts_nt, rct, body.prefix),
                      escrow_nt, "Ok", compute_state(kel, body.prefix))
             ELSE ReceiptOutcome(receipts_nt, escrow_nt,
                                 errors[Len(errors)].err, None)
        ELSE ReceiptOutcome(receipts_nt,
                            add_escrow_nt_receipt(escrow_nt, rct, body.prefix),
                            "Ok", compute_state(kel, body.prefix))

\* ---------------------------------------------------------------- universe
\* The events offered to the processor.  D is a basic-prefix identifier that
\* can delegate; C is the identifier of the delegated inception TheDip; E is
\* named as a delegator but never incepted.
KeyConfigs(p) == IF p = DPrefix THEN {KCa, KCb} ELSE {KCc, KCd}

\* The seals a delegator's event may carry: anchors for the delegated events.
Anchors ==
    <<DigestSeal(BadDigest),
      EventSeal(CPrefix, 0, Derive(Serialize(TheDip))),
      EventSeal(CPrefix, 1, Derive(Serialize(TheDrt))),
      EventSeal(CPrefix, 1, Derive(Serialize(BadDrt)))>>

\* Anchors, and one more for the delegated rotation that skips a number.
FarAnchors == Append(Anchors, EventSeal(CPrefix, 2, Derive(Serialize(FarDrt))))

\* Seals that anchor nothing: a digest seal over TheDip, which is not an
\* event seal, and an event seal for C with another digest.
NonAnchors ==
    <<DigestSeal(Derive(Serialize(TheDip))), EventSeal(CPrefix, 0, BadDigest)>>

\* The seal lists offered in an event of type t of identifier p.
DataChoices(p, t) ==
    IF p # DPrefix \/ t = "drt" THEN {<<>>}
    ELSE IF t = "ixn" THEN {NonAnchors, Anchors} ELSE {FarAnchors}

SourceDigest == Derive(<<"source">>)

\* A source seal list naming the delegator's event at sn: the last couplet
\* counts.
SourceAttachment(sn) ==
    <<SealSourceCouplets(<<SourceSeal(0, SourceDigest),
                           SourceSeal(sn, SourceDigest)>>)>>

\* The sequence numbers at which D's KEL holds an event that carries Anchors.
AnchoredAt(kel) ==
    {kel[DPrefix][i].event_message.sn :
        i \in {j \in 1..Len(get_kel_finalized_events(kel, DPrefix)) :
                  kel[DPrefix][j].event_message.data \in {Anchors, FarAnchors}}}

\* The source seals of an offered delegated event: any sequence number when
\* the event is otherwise well-formed, an anchored one (if there is one) when
\* it deviates elsewhere.
GoodAttachments(kel, F) ==
    {SourceAttachment(n) :
        n \in IF F = {} \/ AnchoredAt(kel) = {} THEN 0..MaxSn
              ELSE {CHOOSE a \in AnchoredAt(kel) :
                        \A b \in AnchoredAt(kel) : a <= b}}

BadAttachments ==
    {<<>>, <<SealSourceCouplets(<<>>)>>,
     <<SealSourceCouplets(<<SourceSeal(1, SourceDigest)>>), OtherAttachment>>}

\* Signatures of the given keys, in index order, over the event.
Signatures(keys, em) ==
    [i \in 1..Len(keys) |-> Sig(i - 1, keys[i], Serialize(em))]

\* The full signature set of the keys in force once the event is applied.
FullSigs(em, s) ==
    Signatures(IF em.type \in {"icp", "rot", "dip", "drt"}
               THEN em.kc.public_keys ELSE s.current.public_keys, em)

\* Deficient signature sets: one signature missing, one forged, one forged
\* signature too many, and the signatures of the keys in force before.
BadSigs(em, s) ==
    LET full == FullSigs(em, s)
        n == Len(full)
    IN  ({SubSeq(full, 1, n - 1),
          Append(full, Sig(n, "kx", Serialize(em))),
          Signatures(s.current.public_keys, em)}
         \cup (IF n > 0
               THEN {[full EXCEPT ![n] = Sig(n - 1, "kx", Serialize(em))]}
               ELSE {}))
        \ {full}

\* The fields in which an offered event of a type may deviate from the
\* well-formed next event.
FaultKinds(t) ==
    CASE t = "icp" -> {"kc", "sig"}
      [] t = "dip" -> {"kc", "del", "sig", "att"}
      [] t = "ixn" -> {"sn", "prev", "sig"}
      [] t = "rot" -> {"sn", "prev", "kc", "sig"}
      [] t = "drt" -> {"sn", "prev", "kc", "sig", "att"}

\* An offered event deviates in at most one field.
FaultSets(t, free) ==
    IF free THEN {{}} \cup {{f} : f \in FaultKinds(t)} ELSE {{}}

SigChoices(em, s, F) ==
    IF "sig" \in F THEN BadSigs(em, s) ELSE {FullSigs(em, s)}

AttChoices(kel, t, F) ==
    IF t \notin {"dip", "drt"} THEN {<<>>}
    ELSE IF "att" \in F THEN BadAttachments ELSE GoodAttachments(kel, F)

Signed(kel, ems, s, t, F) ==
    UNION {{SignedEventMessage(em, sg, at) :
                sg \in SigChoices(em, s, F), at \in AttChoices(kel, t, F)} :
           em \in ems}

\* Inception events for D: the well-formed one has the single key k1.
IcpInputs(kel, s) ==
    UNION {Signed(kel, {EventMessage(DPrefix, 0, "icp", NoDigest, kc, <<>>,
                                DefaultPrefix) :
                     kc \in IF "kc" \in F THEN {KCb} ELSE {KCa}},
                  s, "icp", F) :
           F \in FaultSets("icp", TRUE)}

\* Delegated inception events: TheDip and its deviations.
DipInputs(kel, s) ==
    UNION {Signed(kel, IF "del" \in F THEN {DipE}
                  ELSE IF "kc" \in F THEN {BadDip} ELSE {TheDip},
                  s, "dip", F) :
           F \in FaultSets("dip", TRUE)}

\* Events that continue the KEL of p from its state s, and their deviations.
NextInputs(kel, p, s, t, free) ==
    LET committed == {kc \in KeyConfigs(p) :
                        nxt_commitment(kc.threshold, kc.public_keys)
                            = s.current.next_key_digest}
        Ems(F) ==
            {EventMessage(p, sn, t, prev, kc, data, DefaultPrefix) :
                sn \in IF "sn" \in F THEN (0..MaxSn) \ {s.sn + 1}
                       ELSE {s.sn + 1} \cap (0..MaxSn),
                prev \in IF "prev" \in F THEN {BadDigest}
                         ELSE {Derive(s.last)},
                kc \in IF t = "ixn" THEN {DefaultKeyConfig}
                       ELSE IF "kc" \in F THEN KeyConfigs(p) \ committed
                       ELSE committed,
                data \in DataChoices(p, t)}
    IN  UNION {Signed(kel, Ems(F), s, t, F) : F \in FaultSets(t, free)}

\* Signed events already in a KEL, offered once more.
Replays(kel) ==
    UNION {{kel[p][i] : i \in 1..Len(kel[p])} : p \in DOMAIN kel}

StateOrDefault(kel, p) ==
    LET opt == compute_state(kel, p)
    IN  IF opt.some THEN opt.val ELSE DefaultState

Inputs(kel) ==
    LET sD == StateOrDefault(kel, DPrefix)
        sC == StateOrDefault(kel, CPrefix)
        hasD == has_kel(kel, DPrefix)
        hasC == has_kel(kel, CPrefix)
    IN  IcpInputs(kel, sD) \cup DipInputs(kel, sC) \cup Replays(kel)
        \cup NextInputs(kel, DPrefix, sD, "rot", hasD)
        \cup NextInputs(kel, DPrefix, sD, "ixn", hasD)
        \cup NextInputs(kel, DPrefix, sD, "drt", FALSE)
        \cup NextInputs(kel, CPrefix, sC, "drt", hasC)
        \cup NextInputs(kel, CPrefix, sC, "rot", FALSE)

SealInputs ==
    {EventSeal(p, n, SourceDigest) : p \in {DPrefix, CPrefix}, n \in 0..MaxSn}
        \cup {EventSeal(EPrefix, 0, SourceDigest)}

BytesInputs == {Serialize(TheDip), Serialize(TheDrt), <<"other">>}

\* The events offered while receipts are processed: D's inception, its
\* interaction event with the anchors, and C's delegated inception and
\* rotation, each fully signed, in any order.
TheIcp == EventMessage(DPrefix, 0, "icp", NoDigest, KCa, <<>>, DefaultPrefix)
TheIxn ==
    EventMessage(DPrefix, 1, "ixn", Derive(Serialize(TheIcp)),
                 DefaultKeyConfig, Anchors, DefaultPrefix)

SignedBy(em, keys, attachments) ==
    SignedEventMessage(em, Signatures(keys, em), attachments)

KelInputs ==
    {SignedBy(TheIcp, KCa.public_keys, <<>>),
     SignedBy(TheIxn, KCa.public_keys, <<>>),
     SignedBy(TheDip, KCc.public_keys, SourceAttachment(TheIxn.sn)),
     SignedBy(TheDrt, KCd.public_keys, SourceAttachment(TheIxn.sn))}

\* The receipt bodies: for D's inception, for an event of D beyond those
\* offered, and one that is an interaction event instead of a receipt.
RctIcp == Receipt(DPrefix, 0, "rct", Derive(Serialize(TheIcp)))
RctFar == Receipt(DPrefix, MaxSn, "rct", BadDigest)
NotRct == Receipt(DPrefix, 0, "ixn", Derive(Serialize(TheIcp)))

\* The validator is C.  Its seals: for its inception, for its rotation, one
\* with another digest, and one for an event that establishes no keys.
SealDip == EventSeal(CPrefix, 0, Derive(Serialize(TheDip)))
SealDrt == EventSeal(CPrefix, TheDrt.sn, Derive(Serialize(TheDrt)))
SealBad == EventSeal(CPrefix, 0, BadDigest)
SealIxn == EventSeal(DPrefix, TheIxn.sn, Derive(Serialize(TheIxn)))

\* The transferable receipts offered: the two well-formed ones, and receipts
\* that deviate from the first in one part.
ValidatorReceipts ==
    LET good == Signatures(KCc.public_keys, TheIcp)
    IN  {SignedTransferableReceipt(RctIcp, SealDip, good),
         SignedTransferableReceipt(RctIcp, SealDrt,
                                   Signatures(KCd.public_keys, TheIcp)),
         SignedTransferableReceipt(RctIcp, SealBad, good),
         SignedTransferableReceipt(RctIcp, SealIxn,
                                   Signatures(KCa.public_keys, TheIcp)),
         SignedTransferableReceipt(RctIcp, SealDip, <<>>),
         SignedTransferableReceipt(RctIcp, SealDip,
                                   Append(good, Sig(1, "kx", Serialize(TheIcp)))),
         SignedTransferableReceipt(RctIcp, SealDip,
                                   Signatures(KCc.public_keys, TheIxn)),
         SignedTransferableReceipt(RctIcp, SealDip,
                                   Signatures(KCd.public_keys, TheIcp)),
         SignedTransferableReceipt(RctFar, SealDip, good),
         SignedTransferableReceipt(NotRct, SealDip, good)}

\* The witnesses and their signatures: over the bytes of the inception event,
\* over the bytes of the signed inception event, by another key, and of a
\* kind the witness key does not verify.
W1 == Witness("Ed25519", "w1")
W2 == Witness("Ed25519", "w2")
SignedIcp == SignedBy(TheIcp, KCa.public_keys, <<>>)

OverEvent(w) == Couplet(w, SelfSigning(w.code, w.key, Serialize(TheIcp)))
OverSigned(w) ==
    Couplet(w, SelfSigning(w.code, w.key, SerializeSigned(SignedIcp)))
Forged(w) == Couplet(w, SelfSigning(w.code, "kx", Serialize(TheIcp)))
OtherKind(w) ==
    Couplet(w, SelfSigning("ECDSAsecp256k1", w.key, Serialize(TheIcp)))

WitnessReceipts ==
    {SignedNontransferableReceipt(RctIcp, <<OverEvent(W1)>>),
     SignedNontransferableReceipt(RctIcp, <<OverSigned(W1)>>),
     SignedNontransferableReceipt(RctIcp, <<OverSigned(W1), OverSigned(W2)>>),
     SignedNontransferableReceipt(RctIcp, <<Forged(W1)>>),
     SignedNontransferableReceipt(RctIcp, <<OtherKind(W1)>>),
     SignedNontransferableReceipt(RctIcp, <<OtherKind(W1), OverSigned(W2)>>),
     SignedNontransferableReceipt(RctFar, <<Forged(W1)>>),
     SignedNontransferableReceipt(RctFar, <<OtherKind(W1)>>),
     SignedNontransferableReceipt(NotRct, <<OverSigned(W1)>>)}

\* The events offered to process_event calls that run at the same time: D's
\* inception; its interaction event with the anchors, fully signed and with a
\* forged signature; another interaction event with the same sequence number;
\* the interaction event that follows the first; and C's delegated inception.
OtherIxn == [TheIxn EXCEPT !.data = NonAnchors]
NextIxn ==
    EventMessage(DPrefix, TheIxn.sn + 1, "ixn", Derive(Serialize(TheIxn)),
                 DefaultKeyConfig, <<>>, DefaultPrefix)

\* The fully signed events of D among them.
SameIdInputs ==
    {SignedIcp,
     SignedBy(TheIxn, KCa.public_keys, <<>>),
     SignedBy(OtherIxn, KCa.public_keys, <<>>),
     SignedBy(NextIxn, KCa.public_keys, <<>>)}

CallInputs ==
    {SignedIcp,
     SignedBy(TheIxn, KCa.public_keys, <<>>),
     SignedEventMessage(TheIxn, <<Sig(0, "kx", Serialize(TheIxn))>>, <<>>),
     SignedBy(OtherIxn, KCa.public_keys, <<>>),
     SignedBy(NextIxn, KCa.public_keys, <<>>),
     SignedBy(TheDip, KCc.public_keys, SourceAttachment(TheIxn.sn))}

\* The identifiers compute_state and has_receipt are asked about.
Identifiers == {DPrefix, CPrefix, EPrefix}

\* ----------------------------------------------------------------- builder
\* EventMsgBuilder: the settings of an event to be built.  The serialization
\* format and the digest derivation have no setter and keep their values
\* (JSON, Blake3_256).
EventMsgBuilder(event_type, prefix, sn, threshold, keys, next_keys, prev_event, data, delegator) ==
    [event_type |-> event_type, prefix |-> prefix, sn |-> sn,
     key_threshold |-> threshold, keys |-> keys, next_keys |-> next_keys,
     prev_event |-> prev_event, data |-> data, delegator |-> delegator]

EventType ==
    {"Inception", "Rotation", "Interaction", "DelegatedInception",
     "DelegatedRotation"}

\* EventMsgBuilder::new; k and nk stand for the two generated public keys.
new(event_type, k, nk) ==
    EventMsgBuilder(event_type, DefaultPrefix, 1, 1, <<k>>, <<nk>>,
                    Derive(<<"zeros">>), <<>>, DefaultPrefix)

\* What a call of build ends in: the message, an error, or no return at all.
Aborted == [kind |-> "Abort", msg |-> <<>>]

\* Event::to_message: the event with the header of its serialization.
to_message(em) == [kind |-> "Ok", msg |-> em]

\* incept_self_addressing: the inception data serialized with a dummy prefix,
\* and the digest of that as the prefix of the event, at sn 0.
incept_self_addressing(type, kc, delegator) ==
    LET dummy == EventMessage(DummyPrefix, 0, type, NoDigest, kc, <<>>,
                              delegator)
    IN  to_message([dummy EXCEPT
                       !.prefix = SelfAddressing(Derive(Serialize(dummy)))])

\* build that numbers an inception as it numbers the other events.
build_numbered(b) ==
    LET key_config == KeyConfig(b.keys, b.key_threshold,
                                nxt_commitment(b.key_threshold, b.next_keys))
        prefix == IF b.prefix = DefaultPrefix /\ Len(b.keys) = 1
                  THEN Basic(b.keys[1]) ELSE b.prefix
    IN  IF b.event_type = "DelegatedInception"
        THEN incept_self_addressing("dip", key_config, b.delegator)
        ELSE IF b.event_type = "Inception" /\ prefix.kind = "SelfAddressing"
        THEN incept_self_addressing("icp", key_config, DefaultPrefix)
        ELSE IF b.event_type = "Inception" /\ prefix.kind # "Basic"
        THEN Aborted
        ELSE to_message(EventMessage(
                 prefix, b.sn,
                 CASE b.event_type = "Inception" -> "icp"
                   [] b.event_type = "Rotation" -> "rot"
                   [] b.event_type = "Interaction" -> "ixn"
                   [] OTHER -> "drt",
                 IF b.event_type = "Inception" THEN NoDigest
                 ELSE b.prev_event,
                 IF b.event_type = "Interaction" THEN DefaultKeyConfig
                 ELSE key_config,
                 IF b.event_type = "Inception" THEN <<>> ELSE b.data,
                 DefaultPrefix))

\* EventMsgBuilder::build
build(b) ==
    LET next_key_hash == nxt_commitment(b.key_threshold, b.next_keys)
        key_config == KeyConfig(b.keys, b.key_threshold, next_key_hash)
        prefix == IF b.prefix = DefaultPrefix /\ Len(key_config.public_keys) = 1
                  THEN Basic(key_config.public_keys[1])
                  ELSE b.prefix
    IN  CASE b.event_type = "Inception" ->
                CASE prefix.kind = "Basic" ->
                        to_message(EventMessage(prefix, 0, "icp", NoDigest,
                                                key_config, <<>>,
                                                DefaultPrefix))
                  [] prefix.kind = "SelfAddressing" ->
                        incept_self_addressing("icp", key_config,
                                               DefaultPrefix)
                  [] OTHER -> Aborted
          [] b.event_type = "Rotation" ->
                to_message(EventMessage(prefix, b.sn, "rot", b.prev_event,
                                        key_config, b.data, DefaultPrefix))
          [] b.event_type = "Interaction" ->
                to_message(EventMessage(prefix, b.sn, "ixn", b.prev_event,
                                        DefaultKeyConfig, b.data,
                                        DefaultPrefix))
          [] b.event_type = "DelegatedInception" ->
                incept_self_addressing("dip", key_config, b.delegator)
          [] b.event_type = "DelegatedRotation" ->
                to_message(EventMessage(prefix, b.sn, "drt", b.prev_event,
                                        key_config, b.data, DefaultPrefix))

\* ------------------------------------------------------------------- model
VARIABLES
    kel,          \* the finalized key event logs
    dups,         \* the duplicity log
    receipts_t,   \* the stored transferable (validator) receipts
    receipts_nt,  \* the stored nontransferable (witness) receipts
    escrow_t,     \* the escrowed transferable receipts
    escrow_nt,    \* the escrowed nontransferable receipts
    inflight,     \* the process_event calls in progress, by slot
    builder,      \* the event builder being configured, if any
    built,        \* what the last build call was made on and ended in
    lastCall      \* the last call made: its operation and its result

receipt_tables == <<receipts_t, receipts_nt, escrow_t, escrow_nt>>

vars ==
    <<kel, dups, receipts_t, receipts_nt, escrow_t, escrow_nt, inflight,
      builder, built, lastCall>>

\* No builder at hand, and no build call made yet.
NoBuilder == [event_type |-> "none"]
NotBuilt == [from |-> NoBuilder, result |-> [kind |-> "none", msg |-> <<>>]]

Call(op, res) == [op |-> op, res |-> res]

\* A slot without a call, and a call in progress: its event, the state the
\* event was applied to, and whether the event has been appended yet.
Idle == [pc |-> "idle"]
InProgress(se, new_state, pc) ==
    [pc |-> pc, se |-> se, new_state |-> new_state]

Init ==
    /\ kel = <<>>
    /\ dups = <<>>
    /\ receipts_t = <<>>
    /\ receipts_nt = <<>>
    /\ escrow_t = <<>>
    /\ escrow_nt = <<>>
    /\ inflight = [c \in 1..MaxCalls |-> Idle]
    /\ builder = NoBuilder
    /\ built = NotBuilt
    /\ lastCall = Call("none", "none")

ProcessEvent ==
    \E se \in Inputs(kel) :
        LET out == process_event(kel, dups, se)
        IN  /\ kel' = out.kel
            /\ dups' = out.dups
            /\ lastCall' = Call("process_event", out.res)
            /\ UNCHANGED <<receipt_tables, builder, built, inflight>>

ValidateSeal ==
    \E seal \in SealInputs, bytes \in BytesInputs :
        /\ lastCall' = Call("validate_seal", validate_seal(kel, seal, bytes))
        /\ UNCHANGED <<kel, dups, receipt_tables, builder, built, inflight>>

Next == ProcessEvent \/ ValidateSeal

Spec == Init /\ [][Next]_vars

\* The processor with receipts: events, receipts of both kinds and state
\* queries in any order.  The number of receipts held is capped.
Entries(table) ==
    IF DPrefix \in DOMAIN table THEN Len(table[DPrefix]) ELSE 0

Held ==
    Entries(receipts_t) + Entries(receipts_nt) + Entries(escrow_t)
        + Entries(escrow_nt)

ProcessKelEvent ==
    \E se \in KelInputs :
        LET out == process_event(kel, dups, se)
        IN  /\ kel' = out.kel
            /\ dups' = out.dups
            /\ lastCall' = Call("process_event", out.res)
            /\ UNCHANGED <<receipt_tables, builder, built, inflight>>

ProcessValidatorReceipt ==
    /\ Held < MaxReceipts
    /\ \E vrc \in ValidatorReceipts :
        LET out == process_validator_receipt(kel, receipts_t, escrow_t, vrc)
        IN  /\ receipts_t' = out.receipts
            /\ escrow_t' = out.escrow
            /\ lastCall' = Call("process_validator_receipt", out.res)
            /\ UNCHANGED <<kel, dups, receipts_nt, escrow_nt, inflight,
                           builder, built>>

ProcessWitnessReceipt ==
    /\ Held < MaxReceipts
    /\ \E rct \in WitnessReceipts :
        LET out == process_witness_receipt(kel, receipts_nt, escrow_nt, rct)
        IN  /\ receipts_nt' = out.receipts
            /\ escrow_nt' = out.escrow
            /\ lastCall' = Call("process_witness_receipt", out.res)
            /\ UNCHANGED <<kel, dups, receipts_t, escrow_t, inflight,
                           builder, built>>

\* compute_state that takes the events out of the log as it replays them.
ComputeStateDraining ==
    \E id \in Identifiers :
        /\ lastCall' = Call("compute_state",
                            IF compute_state(kel, id).some THEN "Some"
                            ELSE "None")
        /\ kel' = [p \in DOMAIN kel \ {id} |-> kel[p]]
        /\ UNCHANGED <<dups, receipt_tables, builder, built, inflight>>

\* compute_state reads the KEL of the identifier and writes nothing.
ComputeState ==
    \E id \in Identifiers :
        /\ lastCall' = Call("compute_state",
                            IF compute_state(kel, id).some THEN "Some"
                            ELSE "None")
        /\ UNCHANGED <<kel, dups, receipt_tables, builder, built, inflight>>

NextR ==
    \/ ProcessKelEvent
    \/ ProcessValidatorReceipt
    \/ ProcessWitnessReceipt
    \/ ComputeState

SpecR == Init /\ [][NextR]_vars

\* The processor called from several threads.  A process_event call takes
\* three steps, each one access to the database: it reads the KELs for the
\* delegator seal and the state and applies the event; it appends the event;
\* it verifies the signatures and removes the event again when they fail.
\* Steps of different calls interleave freely: the processor holds no lock.
Quiescent == \A c \in 1..MaxCalls : inflight[c] = Idle

PrefixInProgress(p) ==
    \E c \in 1..MaxCalls :
        inflight[c] # Idle /\ inflight[c].se.event_message.prefix = p

\* The first free slot takes the call.
FreeSlot == CHOOSE c \in 1..MaxCalls :
                /\ inflight[c] = Idle
                /\ \A d \in 1..MaxCalls : inflight[d] = Idle => c <= d

CheckStep(se) ==
    /\ \E c \in 1..MaxCalls : inflight[c] = Idle
    /\ LET r == check_and_apply(kel, se)
       IN  IF r.ok
           THEN /\ inflight' = [inflight EXCEPT
                                   ![FreeSlot] = InProgress(se, r.st, "add")]
                /\ UNCHANGED lastCall
           ELSE /\ lastCall' = Call("process_event", r.err)
                /\ UNCHANGED inflight
    /\ UNCHANGED <<kel, dups, receipt_tables, builder, built>>

\* A call begins while no call for the same identifier is in progress.
BeginCall ==
    \E se \in CallInputs :
        /\ ~PrefixInProgress(se.event_message.prefix)
        /\ CheckStep(se)

\* The events of identifier p that are stored or in the hands of a call.
InHand(p) ==
    Len(get_kel_finalized_events(kel, p))
        + Cardinality({c \in 1..MaxCalls :
                          /\ inflight[c].pc = "add"
                          /\ inflight[c].se.event_message.prefix = p})

\* A call for D begins whatever calls are in progress.
BeginAnyCall ==
    \E se \in SameIdInputs :
        /\ InHand(se.event_message.prefix) < MaxLen
        /\ CheckStep(se)

AddStep ==
    \E c \in 1..MaxCalls :
        /\ inflight[c].pc = "add"
        /\ kel' = add_kel_finalized_event(
                      kel, inflight[c].se,
                      inflight[c].se.event_message.prefix)
        /\ inflight' = [inflight EXCEPT ![c].pc = "verify"]
        /\ UNCHANGED <<dups, receipt_tables, builder, built, lastCall>>

VerifyStep ==
    \E c \in 1..MaxCalls :
        /\ inflight[c].pc = "verify"
        /\ LET out == verify_added(kel, dups, inflight[c].se,
                                   inflight[c].new_state)
           IN  /\ kel' = out.kel
               /\ dups' = out.dups
               /\ lastCall' = Call("process_event", out.res)
        /\ inflight' = [inflight EXCEPT ![c] = Idle]
        /\ UNCHANGED <<receipt_tables, builder, built>>

\* compute_state_at_sn reads the KEL of the identifier and writes nothing.
ComputeStateAtSn ==
    \E id \in Identifiers, sn \in 0..MaxSn :
        /\ lastCall' = Call("compute_state_at_sn",
                            LET r == compute_state_at_sn(kel, id, sn)
                            IN  IF ~r.ok THEN r.err
                                ELSE IF r.st.some THEN "Some" ELSE "None")
        /\ UNCHANGED <<kel, dups, receipt_tables, builder, built, inflight>>

\* Calls for different identifiers at the same time.
NextC == BeginCall \/ AddStep \/ VerifyStep

SpecC == Init /\ [][NextC]_vars

\* Calls at the same time, also for one identifier.
NextP == BeginAnyCall \/ AddStep \/ VerifyStep

SpecP == Init /\ [][NextP]_vars

\* The state queries over any content of D's KEL: the events of D in any
\* number up to MaxLen and in any order, as the database may return them.
KelContents ==
    UNION {[1..n -> SameIdInputs] : n \in 0..MaxLen}

InitF ==
    /\ \E events \in KelContents :
          kel = IF events = <<>> THEN <<>>
                ELSE [p \in {DPrefix} |-> events]
    /\ dups = <<>>
    /\ receipts_t = <<>>
    /\ receipts_nt = <<>>
    /\ escrow_t = <<>>
    /\ escrow_nt = <<>>
    /\ inflight = [c \in 1..MaxCalls |-> Idle]
    /\ builder = NoBuilder
    /\ built = NotBuilt
    /\ lastCall = Call("none", "none")

NextF == ComputeState \/ ComputeStateAtSn

SpecF == InitF /\ [][NextF]_vars

\* The event builder: a builder is made, configured setting by setting, and
\* consumed by build.  Every setter takes the builder and returns it with one
\* field changed.
New ==
    \E t \in EventType, g \in {<<"k1", "k2">>, <<"k4", "k5">>} :
        /\ builder' = new(t, g[1], g[2])
        /\ built' = NotBuilt
        /\ lastCall' = Call("new", "Ok")
        /\ UNCHANGED <<kel, dups, receipt_tables, inflight>>

WithPrefix ==
    \E prefix \in {DefaultPrefix, DPrefix, CPrefix} :
        /\ builder # NoBuilder
        /\ builder' = [builder EXCEPT !.prefix = prefix]
        /\ UNCHANGED <<kel, dups, receipt_tables, inflight, built, lastCall>>

WithKeys ==
    \E keys \in {<<>>, <<"k2", "k3">>} :
        /\ builder # NoBuilder
        /\ builder' = [builder EXCEPT !.keys = keys]
        /\ UNCHANGED <<kel, dups, receipt_tables, inflight, built, lastCall>>

WithNextKeys ==
    \E next_keys \in {<<"k2", "k3">>} :
        /\ builder # NoBuilder
        /\ builder' = [builder EXCEPT !.next_keys = next_keys]
        /\ UNCHANGED <<kel, dups, receipt_tables, inflight, built, lastCall>>

WithSn ==
    \E sn \in 0..MaxSn :
        /\ builder # NoBuilder
        /\ builder' = [builder EXCEPT !.sn = sn]
        /\ UNCHANGED <<kel, dups, receipt_tables, inflight, built, lastCall>>

WithPreviousEvent ==
    \E prev_event \in {Derive(Serialize(TheDip))} :
        /\ builder # NoBuilder
        /\ builder' = [builder EXCEPT !.prev_event = prev_event]
        /\ UNCHANGED <<kel, dups, receipt_tables, inflight, built, lastCall>>

\* with_seal extends the seals given before.
WithSeal ==
    \E seals \in {<<DigestSeal(BadDigest)>>} :
        /\ builder # NoBuilder
        /\ Len(builder.data) + Len(seals) <= MaxSeals
        /\ builder' = [builder EXCEPT !.data = builder.data \o seals]
        /\ UNCHANGED <<kel, dups, receipt_tables, inflight, built, lastCall>>

WithDelegator ==
    \E delegator \in {DPrefix} :
        /\ builder # NoBuilder
        /\ builder' = [builder EXCEPT !.delegator = delegator]
        /\ UNCHANGED <<kel, dups, receipt_tables, inflight, built, lastCall>>

WithThreshold ==
    \E threshold \in {2} :
        /\ builder # NoBuilder
        /\ builder' = [builder EXCEPT !.key_threshold = threshold]
        /\ UNCHANGED <<kel, dups, receipt_tables, inflight, built, lastCall>>

Build ==
    /\ builder # NoBuilder
    /\ built' = [from |-> builder, result |-> build(builder)]
    /\ builder' = NoBuilder
    /\ lastCall' = Call("build", build(builder).kind)
    /\ UNCHANGED <<kel, dups, receipt_tables, inflight>>

NextB ==
    \/ New
    \/ WithPrefix
    \/ WithKeys
    \/ WithNextKeys
    \/ WithSn
    \/ WithPreviousEvent
    \/ WithSeal
    \/ WithDelegator
    \/ WithThreshold
    \/ Build

SpecB == Init /\ [][NextB]_vars

\* ------------------------------------------------------------------ claims
\* The vocabulary of the claims, stated from the stored KELs.
EstablishmentTypes == {"icp", "rot", "dip", "drt"}

\* The stored events of identifier p that carry sequence number sn.
StoredAt(k, p, sn) ==
    {get_kel_finalized_events(k, p)[i] :
        i \in {j \in 1..Len(get_kel_finalized_events(k, p)) :
                 get_kel_finalized_events(k, p)[j].event_message.sn = sn}}

\* The last source couplet attached to a delegated event, if it has one.
HasSourceCouplet(se) ==
    /\ se.attachments # <<>>
    /\ se.attachments[Len(se.attachments)].kind = "SealSourceCouplets"
    /\ se.attachments[Len(se.attachments)].couplets # <<>>

SourceCouplet(se) ==
    LET last == se.attachments[Len(se.attachments)]
    IN  last.couplets[Len(last.couplets)]

\* The delegator of a delegated event: named by a dip, and for a drt the one
\* named by the stored inception of its identifier.
DelegatorOf(se) ==
    LET em == se.event_message
        own == get_kel_finalized_events(kel, em.prefix)
    IN  IF em.type = "dip" THEN em.delegator
        ELSE IF own # <<>> /\ own[1].event_message.type = "dip"
        THEN own[1].event_message.delegator
        ELSE NoDelegator

\* The delegator's stored events at the sequence number the source couplet
\* names.
AnchorEvents(se) ==
    IF HasSourceCouplet(se) /\ DelegatorOf(se) # NoDelegator
    THEN StoredAt(kel, DelegatorOf(se), SourceCouplet(se).sn)
    ELSE {}

\* Event e carries an event seal whose digest is the digest of bytes.
Binds(e, bytes) ==
    /\ e.event_message.type \in {"rot", "ixn", "drt"}
    /\ \E i \in 1..Len(e.event_message.data) :
          /\ e.event_message.data[i].kind = "Event"
          /\ e.event_message.data[i].event_digest = Derive(bytes)

Anchored(se) ==
    \E e \in AnchorEvents(se) : Binds(e, Serialize(se.event_message))

\* C1: in every finalized KEL the stored sequence numbers are 0..n, each once
\* and in order of storage, and every stored event after the first names, as
\* its previous event hash, the digest of the serialization of the stored
\* event before it.
C1_MonotoneLog ==
    \A p \in DOMAIN kel :
        \A i \in 1..Len(kel[p]) :
            /\ kel[p][i].event_message.sn = i - 1
            /\ i > 1 =>
                  kel[p][i].event_message.prev
                      = Derive(Serialize(kel[p][i - 1].event_message))

\* A KEL of three events, and the last offered event was rejected.
C1_Witness ==
    /\ \E p \in DOMAIN kel : Len(kel[p]) >= 3
    /\ lastCall.op = "process_event"
    /\ lastCall.res # "Ok"

\* C2: a process_event call that returns an error other than
\* EventDuplicateError leaves the finalized KEL of every identifier as it was.
C2_AtomicOnFailure ==
    [][(/\ lastCall'.op = "process_event"
        /\ lastCall'.res \notin {"Ok", "EventDuplicateError"})
          => kel' = kel]_vars

\* An event that was appended and failed the signature check, with two KELs
\* stored.
C2_Witness ==
    /\ lastCall = Call("process_event", "SignatureVerificationError")
    /\ has_kel(kel, DPrefix)
    /\ has_kel(kel, CPrefix)

\* C3: processing a stored signed event once more returns EventDuplicateError
\* and the stored event is still the event of its identifier at its sequence
\* number.
C3_DuplicateDetection ==
    \A se \in Replays(kel) :
        LET out == process_event(kel, dups, se)
            em == se.event_message
        IN  /\ out.res = "EventDuplicateError"
            /\ StoredAt(out.kel, em.prefix, em.sn) = {se}
            /\ get_event_at_sn(out.kel, em.prefix, em.sn) = Some(se)

\* A duplicate was just reported, with a delegated inception and rotation
\* among the stored events.
C3_Witness ==
    /\ lastCall = Call("process_event", "EventDuplicateError")
    /\ Len(get_kel_finalized_events(kel, CPrefix)) = 2

\* The events the out-of-order claim is about: a non-inception event of an
\* identifier with a state, more than one sequence number ahead of it.
AheadOfState(se) ==
    LET em == se.event_message
        st == compute_state(kel, em.prefix)
    IN  /\ em.type \in {"rot", "ixn", "drt"}
        /\ st.some
        /\ em.sn > st.val.sn + 1

InForce(se) ==
    IF se.event_message.type \in EstablishmentTypes
    THEN se.event_message.kc
    ELSE StateOrDefault(kel, se.event_message.prefix).current

\* The key indices with a valid signature on the event.
ValidIndices(se) ==
    {se.signatures[i].index :
        i \in {j \in 1..Len(se.signatures) :
                 SigValid(InForce(se), Serialize(se.event_message),
                          se.signatures[j])}}

\* The event passes the delegation precheck and applies to the current state.
Applies(se) ==
    /\ check_delegator_seal(kel, se) = "ok"
    /\ apply(StateOrDefault(kel, se.event_message.prefix),
             se.event_message).ok

\* C5: an event that applies to the current state but carries valid
\* signatures of fewer keys than the threshold returns NotEnoughSigsError,
\* and afterwards there is no event at its sequence number.
C5_PartialSignatures ==
    \A se \in Inputs(kel) :
        LET out == process_event(kel, dups, se)
            em == se.event_message
        IN  (Applies(se) /\ Cardinality(ValidIndices(se)) < InForce(se).threshold)
              => /\ out.res = "NotEnoughSigsError"
                 /\ get_event_at_sn(out.kel, em.prefix, em.sn) = None
                 /\ out.kel = kel

\* An event was just rejected for its signatures while two keys must sign.
C5_Witness ==
    /\ lastCall = Call("process_event", "NotEnoughSigsError")
    /\ StateOrDefault(kel, DPrefix).current = KCb
    /\ \E se \in Inputs(kel) :
          /\ se.event_message.type = "ixn"
          /\ Applies(se)
          /\ Cardinality(ValidIndices(se)) = 1

\* C6: every stored dip or drt is anchored: the delegator's KEL holds, at the
\* sequence number of the event's source couplet, an event with an event seal
\* whose digest is the digest of the delegated event; and a dip or drt is
\* accepted only in a state where it is anchored.
C6_DelegationBinding ==
    /\ \A se \in Replays(kel) :
          se.event_message.type \in {"dip", "drt"} => Anchored(se)
    /\ \A se \in Inputs(kel) :
          (/\ se.event_message.type \in {"dip", "drt"}
           /\ process_event(kel, dups, se).res = "Ok") => Anchored(se)

\* A delegated inception and a delegated rotation are stored, the rotation
\* just accepted, while the delegator also holds an event that anchors
\* nothing.
C6_Witness ==
    /\ lastCall = Call("process_event", "Ok")
    /\ Len(get_kel_finalized_events(kel, CPrefix)) = 2
    /\ \E i \in 1..Len(get_kel_finalized_events(kel, DPrefix)) :
          kel[DPrefix][i].event_message.data = NonAnchors

\* The well-formed delegated events for the current state of C: its
\* inception while C is unknown, its next rotation afterwards.
WellFormedDelegated ==
    IF has_kel(kel, CPrefix)
    THEN NextInputs(kel, CPrefix, StateOrDefault(kel, CPrefix), "drt", FALSE)
    ELSE Signed(kel, {TheDip}, DefaultState, "dip", {})

\* C7: a well-formed dip or drt offered while the delegator has no event at
\* the sequence number of its source couplet returns EventOutOfOrderError and
\* nothing is stored at its sequence number; offered while the delegator's
\* event there anchors it, it is accepted and is the one event stored at its
\* sequence number.
C7_DelegatedOrdering ==
    \A se \in WellFormedDelegated :
        LET out == process_event(kel, dups, se)
            em == se.event_message
        IN  /\ AnchorEvents(se) = {} =>
                  /\ out.res = "EventOutOfOrderError"
                  /\ StoredAt(out.kel, em.prefix, em.sn) = {}
                  /\ out.kel = kel
            /\ Anchored(se) =>
                  /\ out.res = "Ok"
                  /\ StoredAt(out.kel, em.prefix, em.sn) = {se}
                  /\ get_event_at_sn(out.kel, em.prefix, em.sn) = Some(se)

\* The delegated inception is stored, accepted after its anchor, and its
\* rotation was just rejected because its anchor is not there yet.
C7_Witness ==
    /\ lastCall = Call("process_event", "EventOutOfOrderError")
    /\ Len(get_kel_finalized_events(kel, CPrefix)) = 1
    /\ kel[CPrefix][1].event_message = TheDip
    /\ \E se \in WellFormedDelegated :
          se.event_message = TheDrt /\ AnchorEvents(se) = {}

\* C8: validate_seal returns EventOutOfOrderError when the KEL of the seal's
\* identifier has no event at the seal's sequence number, SemanticError when
\* the event there is no rot, ixn or drt or carries no event seal with the
\* digest of the bytes, and is ok exactly when it carries one; and a call of
\* validate_seal changes neither the KELs nor the duplicity log.
C8_ValidateSealClasses ==
    /\ [](\A seal \in SealInputs, bytes \in BytesInputs :
            LET at == StoredAt(kel, seal.prefix, seal.sn)
                res == validate_seal(kel, seal, bytes)
            IN  /\ at = {} => res = "EventOutOfOrderError"
                /\ (at # {} /\ \A e \in at : ~Binds(e, bytes))
                      => res = "SemanticError"
                /\ res = "ok" <=> \E e \in at : Binds(e, bytes))
    /\ [][lastCall'.op = "validate_seal" => kel' = kel /\ dups' = dups]_vars

\* validate_seal just found a binding seal, in a state where other seals are
\* refused for a missing event and for a missing binding.
C8_Witness ==
    /\ lastCall = Call("validate_seal", "ok")
    /\ \E seal \in SealInputs, bytes \in BytesInputs :
          validate_seal(kel, seal, bytes) = "EventOutOfOrderError"
    /\ \E seal \in SealInputs :
          /\ StoredAt(kel, seal.prefix, seal.sn) # {}
          /\ validate_seal(kel, seal, Serialize(TheDip)) = "SemanticError"

\* The next-key commitment an event's own keys and threshold fold to.
CommitmentOf(em) == nxt_commitment(em.kc.threshold, em.kc.public_keys)

\* C9: for every stored rot or drt, the commitment its keys and threshold
\* fold to is the next-key digest of the state computed from the events
\* stored before it; and a rot or drt whose keys do not fold to the next-key
\* digest of the current state is not accepted.
C9_PreRotationBinding ==
    /\ \A p \in DOMAIN kel :
          \A i \in 1..Len(kel[p]) :
              kel[p][i].event_message.type \in {"rot", "drt"} =>
                  CommitmentOf(kel[p][i].event_message)
                      = replay(DefaultState, SubSeq(kel[p], 1, i - 1), 1)
                            .current.next_key_digest
    /\ \A se \in Inputs(kel) :
          LET out == process_event(kel, dups, se)
              em == se.event_message
          IN  (/\ em.type \in {"rot", "drt"}
               /\ CommitmentOf(em)
                    # StateOrDefault(kel, em.prefix).current.next_key_digest)
                => out.res # "Ok" /\ out.kel = kel

\* A rotation and a delegated rotation are stored, and a rotation to keys
\* that were not committed to is on offer and fully signed.
C9_Witness ==
    /\ \E i \in 1..Len(get_kel_finalized_events(kel, DPrefix)) :
          kel[DPrefix][i].event_message.type = "rot"
    /\ \E i \in 1..Len(get_kel_finalized_events(kel, CPrefix)) :
          kel[CPrefix][i].event_message.type = "drt"
    /\ lastCall = Call("process_event", "SemanticError")
    /\ \E se \in Inputs(kel) :
          /\ se.event_message.type = "rot"
          /\ se.event_message.sn = StateOrDefault(kel, DPrefix).sn + 1
          /\ CommitmentOf(se.event_message)
               # StateOrDefault(kel, DPrefix).current.next_key_digest

\* C10: an event that applies to the current state is accepted exactly when
\* its signatures verify against the key configuration of the state the
\* event results in, which for an establishment event is the one the event
\* brings; when accepted it is appended to its KEL, and when not, the KEL is
\* as before and the verification's error is returned.
C10_ApplyThenVerify ==
    \A se \in Inputs(kel) :
        LET out == process_event(kel, dups, se)
            em == se.event_message
            v == verify(InForce(se), Serialize(em), se.signatures)
        IN  Applies(se) =>
              /\ apply(StateOrDefault(kel, em.prefix), em).st.current
                    = InForce(se)
              /\ out.res = "Ok" <=> v = "true"
              /\ out.res = "Ok" =>
                    out.kel = add_kel_finalized_event(kel, se, em.prefix)
              /\ out.res # "Ok" => out.res = v /\ out.kel = kel

\* A rotation to a new key set was just accepted, and it is stored with the
\* signatures of the keys it introduces.
C10_Witness ==
    /\ lastCall = Call("process_event", "Ok")
    /\ Len(get_kel_finalized_events(kel, DPrefix)) = 2
    /\ kel[DPrefix][2].event_message.type = "rot"
    /\ kel[DPrefix][2].event_message.kc = KCb
    /\ kel[DPrefix][2].signatures
          = Signatures(KCb.public_keys, kel[DPrefix][2].event_message)
    /\ ~has_kel(kel, CPrefix)


RECURSIVE KerlFrom(_, _, _)
KerlFrom(p, sn, n) ==
    IF sn > n THEN <<>>
    ELSE LET se == CHOOSE e \in StoredAt(kel, p, sn) : TRUE
         IN  SerializeSigned(se) \o KerlFrom(p, sn + 1, n)

\* C12: get_kerl of an identifier with a KEL is the concatenation, in
\* ascending order of sequence number, of the serializations of its stored
\* signed events, one for each sequence number up to the state's; it is None
\* for an identifier without a KEL; and an event that process_event rejects
\* leaves it as it was.
C12_KerlOfAcceptedEvents ==
    /\ [](\A p \in {DPrefix, CPrefix, C2Prefix, EPrefix} :
            IF has_kel(kel, p)
            THEN /\ \A sn \in 0..compute_state(kel, p).val.sn :
                        Cardinality(StoredAt(kel, p, sn)) = 1
                 /\ get_kerl(kel, p)
                        = Some(KerlFrom(p, 0, compute_state(kel, p).val.sn))
            ELSE get_kerl(kel, p) = None)
    /\ [][(lastCall'.op = "process_event" /\ lastCall'.res # "Ok")
             => \A p \in {DPrefix, CPrefix, C2Prefix, EPrefix} :
                    get_kerl(kel', p) = get_kerl(kel, p)]_vars

\* A KEL of three events next to an identifier without one, after a rejected
\* event.
C12_Witness ==
    /\ Len(get_kel_finalized_events(kel, DPrefix)) >= 3
    /\ has_kel(kel, CPrefix)
    /\ ~has_kel(kel, C2Prefix)
    /\ lastCall.op = "process_event"
    /\ lastCall.res \in {"EventDuplicateError", "NotEnoughSigsError",
                         "EventOutOfOrderError"}

\* C13: for an identifier with stored events 0..n and 0 <= k <= n,
\* compute_state_at_sn(prefix, k) is a state with that prefix, with sn = k and
\* with last the serialization of the stored event k; for k < n the digest of
\* last is the previous event hash of the stored event k + 1.
C13_StateAtSn ==
    \A p \in DOMAIN kel :
        \A k \in 0..(Len(kel[p]) - 1) :
            LET r == compute_state_at_sn(kel, p, k)
            IN  /\ r.ok
                /\ r.st.some
                /\ r.st.val.prefix = p
                /\ r.st.val.sn = k
                /\ \A se \in StoredAt(kel, p, k) :
                       r.st.val.last = Serialize(se.event_message)
                /\ StoredAt(kel, p, k) # {}
                /\ k < Len(kel[p]) - 1 =>
                       \A se \in StoredAt(kel, p, k + 1) :
                           se.event_message.prev = Derive(r.st.val.last)

\* Two KELs, one of three events and a delegated one of two, so that states
\* before the last event exist.
C13_Witness ==
    /\ Len(get_kel_finalized_events(kel, DPrefix)) >= 3
    /\ Len(get_kel_finalized_events(kel, CPrefix)) = 2
    /\ compute_state_at_sn(kel, DPrefix, 1).st.val.sn = 1
    /\ compute_state_at_sn(kel, CPrefix, 0).st.val.sn = 0

\* The receipts of either kind whose body is a receipt, and whether the event
\* a receipt names is stored.
RctBody(r) == r.body.type = "rct"
Present(r) == get_event_at_sn(kel, r.body.prefix, r.body.sn).some

ValidatorOutcome(vrc) ==
    process_validator_receipt(kel, receipts_t, escrow_t, vrc)
WitnessOutcome(rct) ==
    process_witness_receipt(kel, receipts_nt, escrow_nt, rct)

\* C14: processing a validator receipt or a witness receipt leaves every KEL
\* as it was, and a call that succeeds returns the state compute_state gives
\* for the receipted identifier before the call.
C14_ReceiptsKeepState ==
    /\ [][lastCall'.op \in {"process_validator_receipt",
                            "process_witness_receipt"}
             => kel' = kel /\ dups' = dups]_vars
    /\ [](/\ \A vrc \in ValidatorReceipts :
                ValidatorOutcome(vrc).res = "Ok"
                    => ValidatorOutcome(vrc).state
                           = compute_state(kel, vrc.body.prefix)
          /\ \A rct \in WitnessReceipts :
                WitnessOutcome(rct).res = "Ok"
                    => WitnessOutcome(rct).state
                           = compute_state(kel, rct.body.prefix))

\* A validator receipt was stored for an identifier with a KEL of two events,
\* the validator having a KEL of its own and another state.
C14_Witness ==
    /\ lastCall = Call("process_validator_receipt", "Ok")
    /\ Entries(receipts_t) = 1
    /\ Len(get_kel_finalized_events(kel, DPrefix)) = 2
    /\ compute_state(kel, CPrefix).some
    /\ compute_state(kel, CPrefix) # compute_state(kel, DPrefix)

\* The offered events that are the event a validator seal names.
NamedBy(seal) ==
    {se \in KelInputs :
        /\ se.event_message.prefix = seal.prefix
        /\ se.event_message.sn = seal.sn
        /\ seal.event_digest = Derive(Serialize(se.event_message))}

\* C15: a validator receipt for a stored event, processed while the
\* validator's KEL has no event at the sequence number its seal names, returns
\* an error and is not stored, so has_receipt answers as before; once the
\* establishment event the seal names has been accepted, processing the same
\* receipt (signed by that event's keys) succeeds and has_receipt is true.
C15_ValidatorReceiptOrdering ==
    \A vrc \in ValidatorReceipts :
        LET body == vrc.body
            seal == vrc.validator_seal
            out == ValidatorOutcome(vrc)
        IN  (/\ RctBody(vrc)
             /\ Present(vrc)
             /\ ~get_event_at_sn(kel, seal.prefix, seal.sn).some)
            => /\ out.res # "Ok"
               /\ out.receipts = receipts_t
               /\ has_receipt(out.receipts, body.prefix, body.sn, seal.prefix)
                     = has_receipt(receipts_t, body.prefix, body.sn,
                                   seal.prefix)
               /\ \A se \in NamedBy(seal) :
                     LET ev == process_event(kel, dups, se)
                         again == process_validator_receipt(
                                      ev.kel, out.receipts, out.escrow, vrc)
                         receipted == get_event_at_sn(kel, body.prefix,
                                                      body.sn).val
                     IN  (/\ ev.res = "Ok"
                          /\ se.event_message.type \in EstablishmentTypes
                          /\ verify(se.event_message.kc,
                                    Serialize(receipted.event_message),
                                    vrc.signatures) = "true")
                         => /\ again.res = "Ok"
                            /\ has_receipt(again.receipts, body.prefix,
                                           body.sn, seal.prefix)

\* A validator receipt was just refused; no receipt is stored; the receipted
\* inception is stored, and the validator's rotation, named by the seal of an
\* offered receipt, is not yet stored but would be accepted now.
C15_Witness ==
    /\ lastCall = Call("process_validator_receipt", "SemanticError")
    /\ ~has_receipt(receipts_t, DPrefix, 0, CPrefix)
    /\ Held = 0
    /\ get_event_at_sn(kel, DPrefix, 0).some
    /\ ~get_event_at_sn(kel, CPrefix, TheDrt.sn).some
    /\ \E se \in NamedBy(SealDrt) : process_event(kel, dups, se).res = "Ok"
    /\ \E vrc \in ValidatorReceipts :
          /\ vrc.validator_seal = SealDrt
          /\ ValidatorOutcome(vrc).res = "SemanticError"

\* The validator's stored event a seal names that is an establishment event
\* bound by the seal's digest and whose key configuration the signatures
\* satisfy over the bytes of the receipted event.
Vouched(vrc) ==
    \E e \in StoredAt(kel, vrc.validator_seal.prefix, vrc.validator_seal.sn),
       r \in StoredAt(kel, vrc.body.prefix, vrc.body.sn) :
        /\ e.event_message.type \in EstablishmentTypes
        /\ vrc.validator_seal.event_digest
              = Derive(Serialize(e.event_message))
        /\ verify(e.event_message.kc, Serialize(r.event_message),
                  vrc.signatures) = "true"

\* C16: a validator receipt for a stored event is stored, with an Ok result,
\* when and only when the validator's KEL holds, at the sequence number of the
\* seal, an establishment event bound by the seal's digest and the signatures
\* satisfy that event's key configuration over the bytes of the receipted
\* event; in every other case an error is returned, the stored receipts are
\* unchanged and nothing is escrowed.
C16_ValidatorReceiptStored ==
    \A vrc \in ValidatorReceipts :
        LET out == ValidatorOutcome(vrc)
        IN  (RctBody(vrc) /\ Present(vrc))
            => IF Vouched(vrc)
               THEN /\ out.res = "Ok"
                    /\ out.receipts
                          = add_receipt_t(receipts_t, vrc, vrc.body.prefix)
               ELSE /\ out.res \in {"SemanticError", "NotEnoughSigsError",
                                    "SignatureVerificationError"}
                    /\ out.receipts = receipts_t
                    /\ out.escrow = escrow_t

\* With the receipted inception and the validator's inception stored, a
\* receipt was just refused for its signatures, while receipts are on offer
\* that are vouched for, that name a digest that does not bind, and that name
\* an event establishing no keys.
C16_Witness ==
    /\ lastCall = Call("process_validator_receipt",
                       "SignatureVerificationError")
    /\ \E vrc \in ValidatorReceipts :
          RctBody(vrc) /\ Present(vrc) /\ Vouched(vrc)
    /\ \E vrc \in ValidatorReceipts :
          /\ RctBody(vrc) /\ Present(vrc)
          /\ vrc.validator_seal = SealBad
          /\ ValidatorOutcome(vrc).res = "SemanticError"
    /\ \E vrc \in ValidatorReceipts :
          /\ vrc.validator_seal = SealIxn
          /\ get_event_at_sn(kel, DPrefix, TheIxn.sn).some
          /\ ValidatorOutcome(vrc).res = "SemanticError"

\* The claim C17 as stated: a validator receipt for an event that is not
\* stored is escrowed, not stored, and the recomputed state of the receipted
\* identifier is returned.
C17_AsStated ==
    \A vrc \in ValidatorReceipts :
        LET out == ValidatorOutcome(vrc)
        IN  (RctBody(vrc) /\ ~Present(vrc))
            => /\ out.escrow
                     = add_escrow_t_receipt(escrow_t, vrc, vrc.body.prefix)
               /\ out.receipts = receipts_t
               /\ out.res = "Ok"
               /\ out.state = compute_state(kel, vrc.body.prefix)

\* C17: a validator receipt for an event that is not stored is added to the
\* transferable escrow and not to the stored receipts, and the call returns
\* SemanticError without a state.
C17_EscrowedValidatorReceipt ==
    \A vrc \in ValidatorReceipts :
        LET out == ValidatorOutcome(vrc)
        IN  (RctBody(vrc) /\ ~Present(vrc))
            => /\ out.escrow
                     = add_escrow_t_receipt(escrow_t, vrc, vrc.body.prefix)
               /\ out.receipts = receipts_t
               /\ out.res = "SemanticError"
               /\ out.state = None

\* A validator receipt was just escrowed with an error, for an event beyond
\* the stored ones of an identifier that has a state.
C17_Witness ==
    /\ lastCall = Call("process_validator_receipt", "SemanticError")
    /\ Entries(escrow_t) = 1
    /\ Entries(receipts_t) = 0
    /\ escrow_t[DPrefix][1].body = RctFar
    /\ compute_state(kel, DPrefix).some

\* Every couplet of a witness receipt verifies over the bytes of the receipted
\* event.
CoupletsVerify(rct) ==
    \A r \in StoredAt(kel, rct.body.prefix, rct.body.sn) :
        \A i \in 1..Len(rct.couplets) :
            basic_verify(rct.couplets[i].witness,
                         Serialize(r.event_message),
                         rct.couplets[i].signature) = Ok(TRUE)

\* The claim C18 as stated: a witness receipt for a stored event is stored if
\* and only if every couplet verifies against the bytes of the receipted
\* event; if a couplet fails an error is returned and the receipt is neither
\* stored nor escrowed.
C18_AsStated ==
    \A rct \in WitnessReceipts :
        LET out == WitnessOutcome(rct)
        IN  (RctBody(rct) /\ Present(rct))
            => IF CoupletsVerify(rct)
               THEN out.receipts
                        = add_receipt_nt(receipts_nt, rct, rct.body.prefix)
               ELSE /\ out.res # "Ok"
                    /\ out.receipts = receipts_nt
                    /\ out.escrow = escrow_nt

\* C19: a witness receipt for an event that is not stored is added to the
\* nontransferable escrow whatever its couplets are, is not added to the
\* stored receipts, and the call returns the recomputed state of the receipted
\* identifier, not an error.
C19_EscrowedWitnessReceipt ==
    \A rct \in WitnessReceipts :
        LET out == WitnessOutcome(rct)
        IN  (RctBody(rct) /\ ~Present(rct))
            => /\ out.escrow
                     = add_escrow_nt_receipt(escrow_nt, rct, rct.body.prefix)
               /\ out.receipts = receipts_nt
               /\ out.res = "Ok"
               /\ out.state = compute_state(kel, rct.body.prefix)

\* A witness receipt whose couplet cannot be verified was just escrowed for
\* an event beyond the stored ones of an identifier that has a state.
C19_Witness ==
    /\ lastCall = Call("process_witness_receipt", "Ok")
    /\ Entries(escrow_nt) = 1
    /\ Entries(receipts_nt) = 0
    /\ escrow_nt[DPrefix][1]
          = SignedNontransferableReceipt(RctFar, <<OtherKind(W1)>>)
    /\ compute_state(kel, DPrefix).some

\* C20: a receipt of either kind whose body is not a receipt is refused with
\* SemanticError, and neither the stored receipts nor the escrows change.
C20_ReceiptStructure ==
    /\ \A vrc \in ValidatorReceipts :
          LET out == ValidatorOutcome(vrc)
          IN  ~RctBody(vrc)
              => /\ out.res = "SemanticError"
                 /\ out.receipts = receipts_t
                 /\ out.escrow = escrow_t
    /\ \A rct \in WitnessReceipts :
          LET out == WitnessOutcome(rct)
          IN  ~RctBody(rct)
              => /\ out.res = "SemanticError"
                 /\ out.receipts = receipts_nt
                 /\ out.escrow = escrow_nt

\* A witness receipt was just refused with SemanticError while the event its
\* body names is stored and a well-formed receipt for that event would be
\* stored.
C20_Witness ==
    /\ lastCall = Call("process_witness_receipt", "SemanticError")
    /\ Held = 0
    /\ \E rct \in WitnessReceipts : ~RctBody(rct) /\ Present(rct)
    /\ \E vrc \in ValidatorReceipts : ~RctBody(vrc) /\ Present(vrc)
    /\ \E rct \in WitnessReceipts :
          /\ RctBody(rct)
          /\ WitnessOutcome(rct).receipts # receipts_nt


\* The claim C21 as stated, in the case it singles out: once process_event
\* calls for different identifiers that ran at the same time have all
\* returned, every stored delegated event is anchored, as after the same calls
\* in any sequential order: the KEL of its delegator holds, at the sequence
\* number its source seal names, an event with a seal that binds it.
C21_AsStated ==
    Quiescent
        => \A p \in DOMAIN kel :
               \A i \in 1..Len(kel[p]) :
                   kel[p][i].event_message.type \in {"dip", "drt"}
                       => Anchored(kel[p][i])

\* The claim C22 as stated: once process_event calls for one identifier that
\* ran at the same time have all returned, its KEL holds no two events with
\* the same sequence number, as after the same calls one after the other.
C22_AsStated ==
    Quiescent
        => \A p \in DOMAIN kel :
               \A i, j \in 1..Len(kel[p]) :
                   kel[p][i].event_message.sn = kel[p][j].event_message.sn
                       => i = j

\* The claim C23 as stated: when process_event returns EventDuplicateError the
\* offered signed event has been appended to the duplicity log of its prefix.
C23_AsStated ==
    \A se \in Inputs(kel) :
        LET out == process_event(kel, dups, se)
            id == se.event_message.prefix
        IN  out.res = "EventDuplicateError"
                => out.dups = add_duplicious_event(dups, se, id)

\* The claim C24 as stated: a process_event call that fails with
\* EventOutOfOrderError writes to an escrow table; one that fails with
\* EventDuplicateError changes at most the duplicity log; one that fails
\* otherwise changes none of the KELs, the receipt tables, the duplicity log
\* and the escrows.
C24_AsStated ==
    [][(lastCall'.op = "process_event" /\ lastCall'.res # "Ok")
          => CASE lastCall'.res = "EventOutOfOrderError" ->
                     /\ <<escrow_t, escrow_nt>>' # <<escrow_t, escrow_nt>>
                     /\ kel' = kel
               [] lastCall'.res = "EventDuplicateError" ->
                     /\ kel' = kel
                     /\ receipt_tables' = receipt_tables
               [] OTHER ->
                     /\ kel' = kel
                     /\ dups' = dups
                     /\ receipt_tables' = receipt_tables]_vars


\* The stored events of p in ascending order of sequence number, events with
\* one sequence number in the order of storage.
RECURSIVE Ascending(_, _)
Ascending(events, sn) ==
    IF \A i \in 1..Len(events) : events[i].event_message.sn < sn THEN <<>>
    ELSE SelectSeq(events, LAMBDA e : e.event_message.sn = sn)
             \o Ascending(events, sn + 1)

\* The state after the first n of the events, and whether replay has stopped:
\* an event is applied to the state after the events before it; when that
\* fails with EventOutOfOrderError or NotEnoughSigsError the state stays, when
\* it fails otherwise the state stays for good.
RECURSIVE Folded(_, _)
Folded(events, n) ==
    IF n = 0 THEN [st |-> DefaultState, stopped |-> FALSE]
    ELSE LET before == Folded(events, n - 1)
             r == apply(before.st, events[n].event_message)
         IN  IF before.stopped THEN before
             ELSE IF r.ok THEN [st |-> r.st, stopped |-> FALSE]
             ELSE [st |-> before.st,
                   stopped |-> r.err \notin {"EventOutOfOrderError",
                                             "NotEnoughSigsError"}]

\* C26: compute_state of an identifier with a KEL is Some state: the state
\* reached from the default state over the stored events in ascending order
\* of sequence number, where an event that fails with EventOutOfOrderError or
\* NotEnoughSigsError is skipped and any other failure ends the replay with
\* the state reached so far; for an identifier without a KEL it is None.
C26_ReplayPolicy ==
    \A p \in Identifiers :
        IF has_kel(kel, p)
        THEN LET events == Ascending(kel[p], 0)
             IN  /\ Len(events) = Len(kel[p])
                 /\ compute_state(kel, p)
                       = Some(Folded(events, Len(events)).st)
        ELSE compute_state(kel, p) = None


\* compute_state was just called on a KEL of D in which a second event with
\* sequence number 1 ends the replay and the event stored after it would
\* apply to the state reached.
C26_Witness ==
    /\ lastCall = Call("compute_state", "Some")
    /\ has_kel(kel, DPrefix)
    /\ LET events == Ascending(get_kel_finalized_events(kel, DPrefix), 0)
           n == Len(events)
       IN  /\ n = 4
           /\ Folded(events, n).stopped
           /\ ~Folded(events, n - 2).stopped
           /\ apply(Folded(events, n).st, events[n].event_message).ok
           /\ compute_state(kel, DPrefix).val.sn = 1

\* The claim C27 as stated: compute_state_at_sn(prefix, sn) returns what
\* compute_state returns when the stored events with a higher sequence number
\* are left out: failures with EventOutOfOrderError or NotEnoughSigsError are
\* skipped, another failure ends the replay with the state reached; and None
\* without a KEL.
C27_AsStated ==
    \A p \in Identifiers, sn \in 0..MaxSn :
        compute_state_at_sn(kel, p, sn)
            = IF has_kel(kel, p)
              THEN Ok(Some(replay(DefaultState,
                                  SelectSeq(sort(kel[p]),
                                            LAMBDA e : e.event_message.sn <= sn),
                                  1)))
              ELSE Ok(None)

\* The stored establishment events of p with the highest sequence number.
LastEstablishment(p) ==
    {se \in {kel[p][i] : i \in 1..Len(kel[p])} :
        /\ se.event_message.type \in EstablishmentTypes
        /\ \A i \in 1..Len(kel[p]) :
              kel[p][i].event_message.type \in EstablishmentTypes
                  => kel[p][i].event_message.sn <= se.event_message.sn}

\* The claim C25 as stated: for an identifier with a KEL,
\* get_last_establishment_event_seal returns a seal with the prefix and the
\* sequence number of the stored icp, rot, dip or drt with the highest
\* sequence number and with a digest of that event; for an identifier without
\* a KEL it returns None.
C25_AsStated ==
    \A p \in {DPrefix, CPrefix, EPrefix} :
        LET r == get_last_establishment_event_seal(kel, p)
        IN  IF has_kel(kel, p)
            THEN /\ r.ok
                 /\ r.st.some
                 /\ \E se \in LastEstablishment(p) :
                       /\ r.st.val.prefix = p
                       /\ r.st.val.sn = se.event_message.sn
                       /\ r.st.val.event_digest
                             \in {Derive(Serialize(se.event_message)),
                                  Derive(SerializeSigned(se))}
            ELSE r = Ok(None)

\* The seals a receipt may carry: every identifier, every sequence number,
\* the digest of every offered event or an unrelated one.
ClaimedSeals ==
    {EventSeal(p, sn, d) :
        p \in Identifiers, sn \in 0..MaxSn,
        d \in {Derive(Serialize(se.event_message)) : se \in KelInputs}
                 \cup {BadDigest}}

\* The stored events a seal names and binds.
BoundBy(seal) ==
    {e \in StoredAt(kel, seal.prefix, seal.sn) :
        seal.event_digest = Derive(Serialize(e.event_message))}

\* C28: get_keys_at_event(prefix, sn, digest) returns the key configuration
\* of the event stored at (prefix, sn) exactly when the digest binds that
\* event's serialization and the event is an icp, rot, dip or drt; with no
\* event stored at that sn, with a digest that does not bind, or with a bound
\* ixn it fails with SemanticError.  A validator receipt for a stored event
\* whose seal binds an interaction event is therefore refused with
\* SemanticError and never added to the stored receipts.
C28_KeysAtEvent ==
    /\ \A seal \in ClaimedSeals :
          LET r == get_keys_at_event(kel, seal.prefix, seal.sn,
                                     seal.event_digest)
              keyed == {e \in BoundBy(seal) :
                          e.event_message.type \in EstablishmentTypes}
          IN  IF keyed # {}
              THEN \E e \in keyed : r = Ok(Some(e.event_message.kc))
              ELSE r = Err("SemanticError")
    /\ \A vrc \in ValidatorReceipts :
          (/\ RctBody(vrc)
           /\ Present(vrc)
           /\ \E e \in BoundBy(vrc.validator_seal) :
                  e.event_message.type = "ixn")
          => /\ ValidatorOutcome(vrc).res = "SemanticError"
             /\ ValidatorOutcome(vrc).receipts = receipts_t
    /\ \A id \in DOMAIN receipts_t :
          \A i \in 1..Len(receipts_t[id]) :
              \A e \in BoundBy(receipts_t[id][i].validator_seal) :
                  e.event_message.type # "ixn"

\* A validator receipt was just refused with SemanticError while the
\* interaction event its seal binds and the receipted inception are stored;
\* the validator's inception is stored too, so that seals are at hand for
\* which the keys are returned, for which the digest does not bind, and for
\* which nothing is stored.
C28_Witness ==
    /\ lastCall = Call("process_validator_receipt", "SemanticError")
    /\ BoundBy(SealIxn) # {}
    /\ \E vrc \in ValidatorReceipts :
          /\ vrc.validator_seal = SealIxn
          /\ RctBody(vrc) /\ Present(vrc)
          /\ ValidatorOutcome(vrc).res = "SemanticError"
    /\ get_keys_at_event(kel, SealDip.prefix, SealDip.sn,
                         SealDip.event_digest) = Ok(Some(TheDip.kc))
    /\ StoredAt(kel, SealBad.prefix, SealBad.sn) # {}
    /\ BoundBy(SealBad) = {}
    /\ StoredAt(kel, SealDrt.prefix, SealDrt.sn) = {}
    /\ Entries(receipts_t) = 0

\* What process_event answers for a delegated event whose anchoring seal is
\* looked for in the KEL of the given delegator.
SearchedIn(delegator, se) ==
    LET ss == find_source_seal(se)
    IN  IF ~ss.ok THEN "SemanticError"
        ELSE validate_seal(kel, EventSeal(delegator, ss.sn, ss.digest),
                           Serialize(se.event_message))

IxnInputs ==
    {se \in Inputs(kel)
            \cup NextInputs(kel, CPrefix, StateOrDefault(kel, CPrefix),
                            "ixn", has_kel(kel, CPrefix)) :
        se.event_message.type = "ixn"}

\* Two identifier states differ in nothing but sn and last.
SameButSnAndLast(s, t) ==
    /\ t.prefix = s.prefix
    /\ t.current.public_keys = s.current.public_keys
    /\ t.current.threshold = s.current.threshold
    /\ t.current.next_key_digest = s.current.next_key_digest
    /\ t.delegator = s.delegator

\* C30: an interaction event that applies to the state of its identifier, and
\* one that process_event accepts, yields a state whose key configuration
\* (public keys, threshold, next key digest), delegator and prefix are those
\* of the state computed before it, whose sn is one higher and whose last is
\* the serialization of the event; the state computed from the KEL after the
\* acceptance is that state.
C30_InteractionKeepsKeys ==
    \A se \in IxnInputs :
        LET em == se.event_message
            before == StateOrDefault(kel, em.prefix)
            applied == apply_to_state(kel, em)
            out == process_event(kel, dups, se)
        IN  /\ applied.ok
                => /\ SameButSnAndLast(before, applied.st)
                   /\ applied.st.sn = before.sn + 1
                   /\ applied.st.last = Serialize(em)
            /\ out.res = "Ok"
                => /\ SameButSnAndLast(before, out.state)
                   /\ out.state.sn = before.sn + 1
                   /\ out.state.last = Serialize(em)
                   /\ compute_state(out.kel, em.prefix) = Some(out.state)

\* A process_event call just returned Ok; D's KEL ends with an accepted
\* interaction event and its state still has the keys of its inception; C,
\* delegated by D, has a KEL, and an interaction event for C is on offer that
\* would be accepted.
C30_Witness ==
    /\ lastCall = Call("process_event", "Ok")
    /\ Len(get_kel_finalized_events(kel, DPrefix)) = 3
    /\ kel[DPrefix][3].event_message.type = "ixn"
    /\ compute_state(kel, DPrefix).val.sn = 2
    /\ compute_state(kel, DPrefix).val.current
          = kel[DPrefix][1].event_message.kc
    /\ has_kel(kel, CPrefix)
    /\ compute_state(kel, CPrefix).val.delegator = DPrefix
    /\ \E se \in IxnInputs :
          /\ se.event_message.prefix = CPrefix
          /\ process_event(kel, dups, se).res = "Ok"
          /\ process_event(kel, dups, se).state.delegator = DPrefix

\* An inception builder whose prefix was left unset and that has exactly one
\* current key.
SingleKeyInception(b) ==
    /\ b # NoBuilder
    /\ b.event_type = "Inception"
    /\ b.prefix = DefaultPrefix
    /\ Len(b.keys) = 1

\* The message is the basic-prefix inception the settings describe.
BasicInceptionOf(b, r) ==
    /\ r.kind = "Ok"
    /\ r.msg.type = "icp"
    /\ r.msg.prefix = Basic(b.keys[1])
    /\ r.msg.sn = 0
    /\ r.msg.kc.public_keys = b.keys
    /\ r.msg.kc.threshold = b.key_threshold
    /\ r.msg.kc.next_key_digest
          = nxt_commitment(b.key_threshold, b.next_keys)

\* C31: build for event type Inception with no prefix set and exactly one
\* current key yields an event whose prefix is Basic(that key), whose sn is 0
\* whatever was given to with_sn, and whose key configuration holds the
\* configured keys and threshold with next_key_digest equal to
\* nxt_commitment(threshold, next_keys).
C31_BasicInception ==
    /\ SingleKeyInception(builder) => BasicInceptionOf(builder, build(builder))
    /\ SingleKeyInception(built.from)
          => BasicInceptionOf(built.from, built.result)

\* build was just called on an inception builder with one generated key, no
\* prefix, sn set to MaxSn, the threshold and the next keys set; the message
\* has sn 0 and the prefix of the key.
C31_Witness ==
    /\ lastCall = Call("build", "Ok")
    /\ SingleKeyInception(built.from)
    /\ built.from.sn = MaxSn
    /\ built.from.key_threshold = 2
    /\ Len(built.from.next_keys) = 2
    /\ built.result.msg.sn = 0
    /\ built.result.msg.prefix = Basic(built.from.keys[1])

\* The claim C32 as stated: build is total; for every event type and every
\* combination of settings, among them an Inception with an unset prefix and
\* a number of current keys other than one, it returns an event message or an
\* error and never aborts.
C32_AsStated ==
    /\ builder # NoBuilder => build(builder).kind \in {"Ok", "Err"}
    /\ built.result.kind \in {"none", "Ok", "Err"}

\* C33: the state a successful process_event(e) returns, computed before the
\* append, is the state compute_state(e.prefix) replays from the KEL right
\* after the call: the two agree on prefix, sn, last, current key
\* configuration and delegator.
C33_ReturnedStateIsReplayedState ==
    \A se \in Inputs(kel) :
        LET out == process_event(kel, dups, se)
            after == compute_state(out.kel, se.event_message.prefix)
        IN  out.res = "Ok"
              => /\ after.some
                 /\ after.val.prefix = out.state.prefix
                 /\ after.val.sn = out.state.sn
                 /\ after.val.last = out.state.last
                 /\ after.val.current = out.state.current
                 /\ after.val.delegator = out.state.delegator
                 /\ out.state.prefix = se.event_message.prefix
                 /\ out.state.sn = se.event_message.sn
                 /\ out.state.last = Serialize(se.event_message)

\* A process_event call just returned Ok; D's KEL holds an inception, an
\* interaction event and a rotation, C's a delegated inception and a
\* delegated rotation, and the states replayed from them stand at the last
\* events.
C33_Witness ==
    /\ lastCall = Call("process_event", "Ok")
    /\ Len(get_kel_finalized_events(kel, DPrefix)) = 3
    /\ kel[DPrefix][3].event_message.type = "rot"
    /\ Len(get_kel_finalized_events(kel, CPrefix)) = 2
    /\ compute_state(kel, DPrefix).val.last
          = Serialize(kel[DPrefix][3].event_message)
    /\ compute_state(kel, CPrefix).val.current
          = kel[CPrefix][2].event_message.kc

\* The fully signed version of an offered event.
FullySigned(se) ==
    SignedEventMessage(
        se.event_message,
        FullSigs(se.event_message,
                 StateOrDefault(kel, se.event_message.prefix)),
        se.attachments)

\* The offered events that are accepted now, each with the events of the same
\* identifier that are accepted right after it: events one sequence number
\* further than the state allows.
OneAhead ==
    {pair \in UNION {{<<first, second>> :
                        second \in {x \in Inputs(process_event(kel, dups,
                                                              first).kel) :
                                      x.event_message.prefix
                                          = first.event_message.prefix}} :
                     first \in {x \in Inputs(kel) :
                                  process_event(kel, dups, x).res = "Ok"}} :
        process_event(process_event(kel, dups, pair[1]).kel, dups,
                      pair[2]).res = "Ok"}

\* C34: a rejection with NotEnoughSigsError or EventOutOfOrderError leaves
\* the KELs and the duplicity log as they were.  The fully signed version of
\* an event rejected with NotEnoughSigsError is accepted right after the
\* rejection and stored at its sn; an event rejected with
\* EventOutOfOrderError for being one sequence number ahead is accepted and
\* stored at its sn once the event before it has been accepted; in both
\* cases with the outcome the calls have when the rejected attempt is left
\* out.
C34_RejectionLeavesNoTrace ==
    /\ \A se \in Inputs(kel) :
          LET rej == process_event(kel, dups, se)
              full == FullySigned(se)
              again == process_event(rej.kel, rej.dups, full)
          IN  /\ rej.res \in {"NotEnoughSigsError", "EventOutOfOrderError"}
                  => rej.kel = kel /\ rej.dups = dups
              /\ rej.res = "NotEnoughSigsError"
                  => /\ again.res = "Ok"
                     /\ again = process_event(kel, dups, full)
                     /\ get_event_at_sn(again.kel, full.event_message.prefix,
                                        full.event_message.sn) = Some(full)
    /\ \A pair \in OneAhead :
          LET rej == process_event(kel, dups, pair[2])
              lower == process_event(rej.kel, rej.dups, pair[1])
              again == process_event(lower.kel, lower.dups, pair[2])
              never == process_event(kel, dups, pair[1])
          IN  rej.res = "EventOutOfOrderError"
                => /\ again.res = "Ok"
                   /\ again = process_event(never.kel, never.dups, pair[2])
                   /\ get_event_at_sn(again.kel,
                                      pair[2].event_message.prefix,
                                      pair[2].event_message.sn)
                         = Some(pair[2])

\* A call was just rejected with NotEnoughSigsError and D has a KEL; an
\* offered event is rejected so while its fully signed version would be
\* accepted, and an event two sequence numbers past D's state, acceptable
\* after the event before it, is rejected as out of order.
C34_Witness ==
    /\ lastCall = Call("process_event", "NotEnoughSigsError")
    /\ has_kel(kel, DPrefix)
    /\ \E se \in Inputs(kel) :
          /\ process_event(kel, dups, se).res = "NotEnoughSigsError"
          /\ FullySigned(se) # se
          /\ process_event(kel, dups, FullySigned(se)).res = "Ok"
    /\ \E pair \in OneAhead :
          /\ pair[2].event_message.sn
                = StateOrDefault(kel, DPrefix).sn + 2
          /\ process_event(kel, dups, pair[2]).res = "EventOutOfOrderError"

====
